---- MODULE Spec2Model ----
(***************************************************************************)
(* The environment-transaction engine of the manager                      *)
(* (src/app/api/_lib/backendControl.ts, second half: managerEnvEngine):    *)
(* createPlan, applyTransaction and rollbackTransaction over the           *)
(* transactions.json store, the freeze snapshots and the virtualenv.       *)
(*                                                                         *)
(* One server process handles one request at a time (every handler is      *)
(* synchronous: spawnSync, readFileSync, writeFileSync).  A handler is     *)
(* split at each subprocess run and at each file write, the points where   *)
(* the process can die (Crash).                                            *)
(*                                                                         *)
(* Left out of the records: createdAt/updatedAt/startedAt/finishedAt       *)
(* (clock readings), EnvStep.id (a random uuid) and the raw subprocess     *)
(* output text other than the freeze listing.  A transaction id is the     *)
(* creation index, standing for randomUUID().                              *)
(*                                                                         *)
(* Around the engine: sanitizePackages as a function of its input          *)
(* (SpecSanitize); the two plan routes and evaluatePolicy (SpecPlan); the  *)
(* server processes that run the pip-writing handlers with spawnSync on    *)
(* one backend directory, and the read-only requests they receive          *)
(* meanwhile (SpecServers); the install orchestrator of the page           *)
(* (src/app/page.tsx: openInstallCenter, executeInstallSession) with the   *)
(* preflight route's assessItem, split at each await (SpecSession, and     *)
(* SpecChunks for sessions in which no call fails).                        *)
(*                                                                         *)
(* Left out of the orchestrator: the selection toggles of the Install      *)
(* Center (every item stays selected), the search and filter boxes of the  *)
(* pack list, the text of the install log, and the item checks of the      *)
(* batch route (a chunk is taken or refused as a whole).                   *)
(*                                                                         *)
(* The environment repair and diagnostics: autoHealPip and                 *)
(* autoHealPipConflicts round by round over what pip check prints          *)
(* (SpecHeal); the fix route's enforceCompatibleEnvironment with its prune *)
(* loop (SpecFix); the dependency audit script of the compatibility-set    *)
(* route, run on the specifiers collected per package, the clauses of one  *)
(* specifier visited in any order a set can iterate (SpecAudit); the       *)
(* hardware rules of assessItem and runCatalogAudit on item texts          *)
(* (SpecAssess); the status route with its module-level cache and a clock  *)
(* (SpecStatus); resolveBackendDirResult over the marker files of the      *)
(* override and candidate directories (SpecLocate); and the engine started *)
(* where no backend directory exists (SpecNoBackend).                      *)
(*                                                                         *)
(* Left out there: the text of a command's output other than the lines of  *)
(* pip check, environment markers and unparsable lines of requirement      *)
(* files, the "===" and wildcard clauses of specifiers, pre- and           *)
(* post-releases, the titles and fix texts of diagnostic issues, the       *)
(* object_info probe, and the restart of the backend after a fix.          *)
(*                                                                         *)
(* The page and the host around a session: prepareCompatibleHardwareSet    *)
(* with the page's copies of the compatibility set and the diagnostics, and*)
(* a clock in seconds (SpecPrepare); the batch route's item by item        *)
(* classification and payload (SpecBatch); saveCompatibilitySet and the    *)
(* listing of compatibility_sets/ (SpecHistory); createPlan of the other   *)
(* app's copy of the engine run between the steps of this server's         *)
(* handler (SpecPeers); apply and rollback called again on a transaction a *)
(* crash left running, under fairness (SpecRecover); and the restart       *)
(* routes with restartBackendSafely over an Engine that is up or down,     *)
(* with or without its manager routes (SpecRestart).                       *)
(***************************************************************************)
EXTENDS Integers, Sequences, FiniteSets, TLC

\* ---------------------------------------------------------------- bounds
\* requests the server receives under Spec
MaxRequests == 3
\* requests the server receives under SpecLong
MaxRequestsLong == 4
\* createPlan calls under SpecCreate
MaxCreates == 202

\* ------------------------------------------------------- program constants
MAX_TX == 200

\* the packages the virtualenv can hold; a freeze listing is a set of them
Pkgs == {"a", "b"}
\* what the virtualenv holds when the server first starts
BaseEnv == {"a"}

NULL == "null"
NoId == 0
NoTx == [id |-> NoId]
Unset == <<>>
Some(x) == <<x>>

VARIABLES
  disk,      \* transactions.json: [kind: absent | json | partial, txs]
  snaps,     \* snapshots/<tag>.txt: path -> freeze listing
  venv,      \* whether backend-comfyui/venv/bin/python exists
  env,       \* the packages installed in the virtualenv
  pc,        \* position of the handler in progress; "idle", "done" when none
  req,       \* the handler's locals
  resp,      \* the response of the last finished request
  nextId,    \* the next creation index
  nreq,      \* the requests received so far
  before,    \* history: the store file as it was when the request arrived
  ran,       \* history: the subprocess commands the request has run
  tier,      \* process.env.MODUSNAP_LICENSE_TIER, "" when not set
  thread,    \* per server process: the handler its JavaScript thread is in
  inbox,     \* per server process: the read-only request waiting for the thread
  rows,      \* page: managerPackRows, the catalog rows on display
  hw,        \* the backend's hardware profile (.torch_profile)
  session,   \* page: installSession
  cancel,    \* page: installCancelRef.current
  spc,       \* page: position of the orchestrator's async function, "none" when none
  loc,       \* page: that function's locals
  log,       \* history: the calls of the current run, in order (of a row of
             \* queue-status polls, the last one)
  nrun,      \* the runs of executeInstallSession started so far
  backend,   \* whether the backend directory holds main.py and requirements.txt
  reqFiles,  \* the package names written in the backend's requirement files
  cache,     \* status route: the module-level cache, per slot an entry or Unset
  now,       \* the server's clock (Date.now()), in seconds
  sets,      \* user/compatible_hardware_set.json, the names in compatibility_sets/
             \* and the text of .torch_profile
  view,      \* page: compatibilitySet and diagnostics, Unset when null
  engine     \* the Engine: whether it answers, whether its manager routes do,
             \* and the detached starts issued so far

\* the install orchestrator's state (src/app/page.tsx)
sessionVars == <<rows, hw, session, cancel, spc, loc, log, nrun>>

\* the backend directory, the status route's cache, the compatibility sets with
\* the page's copy of the current one, and the Engine
hostVars == <<backend, reqFiles, cache, now, sets, view, engine>>

\* what the transaction engine never writes
rest == <<tier, thread, inbox, sessionVars, hostVars>>

vars == <<disk, snaps, venv, env, pc, req, resp, nextId, nreq, before, ran,
          tier, thread, inbox, rows, hw, session, cancel, spc, loc, log, nrun,
          backend, reqFiles, cache, now, sets, view, engine>>

\* the server processes started on one backend directory: the manager app and
\* the frontend app that still carries the same manager routes
Servers == {"manager", "frontend"}
NoHandler == [op |-> "none", cmds |-> <<>>, child |-> FALSE]
NoProfile == [hasNvidia |-> FALSE, hasRocm |-> FALSE, isDarwinArm64 |-> FALSE]
NoSession == [open |-> FALSE, running |-> FALSE, items |-> <<>>,
              currentChunk |-> 0, totalChunks |-> 0]
NoLocals == [fn |-> "none"]
\* no page is open
PageClosed ==
  /\ rows = <<>>
  /\ hw = NoProfile
  /\ session = NoSession
  /\ cancel = FALSE
  /\ spc = "none"
  /\ loc = NoLocals
  /\ log = <<>>
  /\ nrun = 0
\* the three slots of the status route's cache
Slots == {"managerRuntime", "logInfo", "hardwareRuntime"}
NoCache == [slot \in Slots |-> Unset]
NoReqFiles == [core |-> {}, mgr |-> {}, compat |-> Unset]
NoSets == [current |-> Unset, history |-> {}, profile |-> Unset]
NoView == [compatibilitySet |-> Unset, diagnostics |-> Unset]
EngineDown == [up |-> FALSE, managerRoutes |-> FALSE, starts |-> 0]
\* no compatibility set saved, none loaded by a page, no Engine running
SetsIdle ==
  /\ sets = NoSets
  /\ view = NoView
  /\ engine = EngineDown
\* a valid backend directory, nothing cached yet
HostIdle ==
  /\ backend = TRUE
  /\ reqFiles = NoReqFiles
  /\ cache = NoCache
  /\ now = 0
  /\ SetsIdle
ServersIdle ==
  /\ thread = [s \in Servers |-> NoHandler]
  /\ inbox = [s \in Servers |-> "none"]
  /\ PageClosed
  /\ HostIdle

\* ---------------------------------------------------------------- strings
RECURSIVE Join(_, _)
Join(parts, sep) ==
  IF parts = <<>> THEN ""
  ELSE IF Len(parts) = 1 THEN parts[1]
  ELSE parts[1] \o sep \o Join(Tail(parts), sep)

Last(s) == s[Len(s)]

\* String.prototype.includes
Contains(text, pat) ==
  \E i \in 1..(Len(text) - Len(pat) + 1) : SubSeq(text, i, i + Len(pat) - 1) = pat

\* where pat first and last starts in text; 0 when it does not occur
IndexOf(text, pat) ==
  IF Contains(text, pat)
  THEN CHOOSE i \in 1..(Len(text) - Len(pat) + 1) :
         /\ SubSeq(text, i, i + Len(pat) - 1) = pat
         /\ \A j \in 1..(i - 1) : SubSeq(text, j, j + Len(pat) - 1) # pat
  ELSE 0
LastIndexOf(text, pat) ==
  IF Contains(text, pat)
  THEN CHOOSE i \in 1..(Len(text) - Len(pat) + 1) :
         /\ SubSeq(text, i, i + Len(pat) - 1) = pat
         /\ \A j \in (i + 1)..(Len(text) - Len(pat) + 1) :
              SubSeq(text, j, j + Len(pat) - 1) # pat
  ELSE 0

UpperCase == "ABCDEFGHIJKLMNOPQRSTUVWXYZ"
LowerCase == "abcdefghijklmnopqrstuvwxyz"

\* String.prototype.toLowerCase
RECURSIVE toLowerCase(_)
toLowerCase(s) ==
  IF s = "" THEN ""
  ELSE LET c == SubSeq(s, 1, 1)
           k == IndexOf(UpperCase, c)
       IN (IF k > 0 THEN SubSeq(LowerCase, k, k) ELSE c) \o toLowerCase(SubSeq(s, 2, Len(s)))

Min(a, b) == IF a < b THEN a ELSE b

\* ------------------------------------------------------------------ store
NoFile == [kind |-> "absent", txs |-> <<>>]
Partial == [kind |-> "partial", txs |-> <<>>]
Json(txs) == [kind |-> "json", txs |-> txs]

\* readStore: a missing, truncated or unparsable file reads as the empty store
readStore(file) == IF file.kind = "json" THEN file.txs ELSE <<>>

\* [...store.transactions].slice(-MAX_TX)
SliceLast(txs, n) ==
  IF Len(txs) <= n THEN txs ELSE SubSeq(txs, Len(txs) - n + 1, Len(txs))

\* faulty variant: the oldest MAX_TX entries are kept instead of the newest
trimmed_oldest(txs) == SubSeq(txs, 1, Min(Len(txs), MAX_TX))

trimmed(txs) == SliceLast(txs, MAX_TX)

\* findIndex: the first index holding the id, 0 when none (the code's -1)
findIndex(txs, id) ==
  IF \E i \in 1..Len(txs) : txs[i].id = id
  THEN CHOOSE i \in 1..Len(txs) :
         txs[i].id = id /\ \A j \in 1..(i - 1) : txs[j].id # id
  ELSE 0

\* --------------------------------------------------------- sanitizePackages
Letters ==
  {"a","b","c","d","e","f","g","h","i","j","k","l","m","n","o","p","q","r","s",
   "t","u","v","w","x","y","z",
   "A","B","C","D","E","F","G","H","I","J","K","L","M","N","O","P","Q","R","S",
   "T","U","V","W","X","Y","Z"}
Digits == {"0","1","2","3","4","5","6","7","8","9"}
\* the character class of the regular expression
AllowedChars ==
  Letters \cup Digits \cup
  {"_", ".", "-", "<", ">", "=", "!", "~", "[", "]", ",", ":", "@", "+", "/", " "}

IsSpace(c) == c \in {" ", "\t", "\n"}

RECURSIVE TrimLeft(_)
TrimLeft(s) ==
  IF Len(s) = 0 THEN s
  ELSE IF IsSpace(SubSeq(s, 1, 1)) THEN TrimLeft(SubSeq(s, 2, Len(s)))
  ELSE s

RECURSIVE TrimRight(_)
TrimRight(s) ==
  IF Len(s) = 0 THEN s
  ELSE IF IsSpace(SubSeq(s, Len(s), Len(s))) THEN TrimRight(SubSeq(s, 1, Len(s) - 1))
  ELSE s

Trim(s) == TrimRight(TrimLeft(s))

\* faulty variant: only the first character is tested
SpecifierOk_first(value) ==
  Len(value) > 0 /\ SubSeq(value, 1, 1) \in AllowedChars

\* /^[A-Za-z0-9_.\-<>=!~\[\],:@+/ ]+$/.test(value)
SpecifierOk(value) ==
  /\ Len(value) > 0
  /\ \A i \in 1..Len(value) : SubSeq(value, i, i) \in AllowedChars

InSeq(x, s) == \E i \in 1..Len(s) : s[i] = x

RECURSIVE SanitizeItems(_, _)
SanitizeItems(items, out) ==
  IF items = <<>> THEN out
  ELSE LET value == Trim(Head(items)) IN
       IF value = "" \/ ~SpecifierOk(value) \/ InSeq(value, out)
       THEN SanitizeItems(Tail(items), out)
       ELSE SanitizeItems(Tail(items), Append(out, value))

\* input: [isArray, items]; anything that is not an array gives []
sanitizePackages(input) ==
  IF ~input.isArray THEN <<>> ELSE SanitizeItems(input.items, <<>>)

\* ---------------------------------------------------------------- buildPlan
buildPlan(kind, requestedPackages) ==
  <<"python -m pip install -r requirements.txt",
    "python -m pip install -r manager_requirements.txt">>
  \o (IF kind = "install" /\ Len(requestedPackages) > 0
      THEN <<"python -m pip install " \o Join(requestedPackages, " ")>>
      ELSE <<>>)
  \o <<"python -m pip check">>

\* ------------------------------------------------------------- createPlan
\* the requests createPlan is given
PlanInputs ==
  { [mode |-> "repair", packages |-> [isArray |-> FALSE, items |-> <<>>]],
    [mode |-> "install",
     packages |-> [isArray |-> TRUE, items |-> <<" numpy", "numpy", "a;b">>]] }

NoReq == [op |-> "none"]
NoResp == [op |-> "none", id |-> NoId, status |-> 0, tx |-> NoTx]

Init ==
  /\ disk = NoFile
  /\ snaps = <<>>
  /\ venv \in BOOLEAN
  /\ env = BaseEnv
  /\ pc = "idle"
  /\ req = NoReq
  /\ resp = NoResp
  /\ nextId = 1
  /\ nreq = 0
  /\ before = NoFile
  /\ ran = <<>>
  /\ tier = ""
  /\ ServersIdle

\* a createPlan request arrives
ReceiveCreate(input) ==
  /\ pc = "idle"
  /\ pc' = "createPlan"
  /\ req' = [op |-> "createPlan", input |-> input]
  /\ resp' = NoResp
  /\ before' = disk
  /\ ran' = <<>>
  /\ nreq' = nreq + 1
  /\ UNCHANGED <<disk, snaps, venv, env, nextId>>
  /\ UNCHANGED rest

\* the transaction createPlan builds for an input
planned(id, input) ==
  LET mode == IF input.mode = "install" THEN "install" ELSE "repair"
      requestedPackages == sanitizePackages(input.packages)
  IN [id |-> id,
      kind |-> mode,
      status |-> "planned",
      requestedPackages |-> requestedPackages,
      planCommands |-> buildPlan(mode, requestedPackages),
      steps |-> <<>>,
      pipHealthy |-> Unset,
      rollbackOf |-> NoId,
      snapshotBefore |-> NULL,
      snapshotAfter |-> NULL,
      error |-> NULL]

\* createPlan up to its writeStore call
CreatePlanBuild ==
  /\ pc = "createPlan"
  /\ LET tx == planned(nextId, req.input)
     IN req' = [op |-> "createPlan", input |-> req.input, id |-> nextId, tx |-> tx,
                store |-> Append(readStore(disk), tx), after |-> "return",
                status |-> 200, prev |-> NoFile]
  /\ nextId' = nextId + 1
  /\ pc' = "write"
  /\ UNCHANGED <<disk, snaps, venv, env, resp, before, ran, nreq>>
  /\ UNCHANGED rest

\* writeStore, first half: writeFileSync opens the file truncating it
WriteBegin ==
  /\ pc = "write"
  /\ disk' = Partial
  /\ req' = [req EXCEPT !.prev = disk]
  /\ pc' = "writing"
  /\ UNCHANGED <<snaps, venv, env, resp, nextId, before, ran, nreq>>
  /\ UNCHANGED rest

\* writeStore, second half: the trimmed store is on disk
WriteEnd ==
  /\ pc = "writing"
  /\ disk' = Json(trimmed(req.store))
  /\ IF req.after = "return"
     THEN /\ pc' = "done"
          /\ resp' = [op |-> req.op, id |-> req.id, status |-> req.status, tx |-> req.tx]
          /\ req' = NoReq
     ELSE /\ pc' = req.after
          /\ req' = [req EXCEPT !.prev = NoFile]
          /\ resp' = resp
  /\ UNCHANGED <<snaps, venv, env, nextId, before, ran, nreq>>
  /\ UNCHANGED rest

\* ---------------------------------------------------------------- runPython
venvPython == "backend-comfyui/venv/bin/python"
\* proc.status: 0, or anything else (a timeout's null is recorded as 1)
ExitCodes == {0, 1}

FreezeArgs == <<"-m", "pip", "freeze">>
CheckArgs == <<"-m", "pip", "check">>
InstallArgs(what) == <<"-m", "pip", "install">> \o what

IsInstall(args) == Len(args) >= 3 /\ args[3] = "install"

\* What an install that exits 0 can leave installed.  pip installs what the
\* requirement lines name and uninstalls nothing else: a freeze file pins
\* exactly its own lines; requirements.txt, manager_requirements.txt and
\* package specifiers resolve outside the program, to any set of additions.
Installed(args, e) ==
  IF Len(args) = 5 /\ args[4] = "-r" /\ args[5] \in DOMAIN snaps
  THEN {e \cup snaps[args[5]]}
  ELSE {e2 \in SUBSET Pkgs : e \subseteq e2}

\* the environments one run can leave: freeze and check change nothing, an
\* install that exits non-zero (or is killed at the timeout) may have
\* installed part of what it would have
Effects(args, code, e) ==
  IF ~IsInstall(args) THEN {e}
  ELSE IF code = 0 THEN Installed(args, e)
  ELSE {e2 \in SUBSET Pkgs : \E full \in Installed(args, e) : e \subseteq e2 /\ e2 \subseteq full}

\* runPython: the possible [step, env] results of one call
runPython(args) ==
  IF ~venv
  THEN { [step |-> [command |-> "python " \o Join(args, " "),
                    ok |-> FALSE, status |-> 1],
          env |-> env] }
  ELSE UNION { { [step |-> [command |-> venvPython \o " " \o Join(args, " "),
                            ok |-> (code = 0), status |-> code],
                  env |-> e] : e \in Effects(args, code, env) }
               : code \in ExitCodes }

snapshotPath(tag) == "snapshots/" \o tag \o ".txt"

\* writeFreezeSnapshot: the possible [file, snaps, command] results; the file
\* written is the freeze listing of the environment
writeFreezeSnapshot(tag) ==
  { [file |-> IF o.step.ok THEN snapshotPath(tag) ELSE NULL,
     snaps |-> IF o.step.ok THEN (snapshotPath(tag) :> o.env) @@ snaps ELSE snaps,
     command |-> o.step.command] : o \in runPython(FreezeArgs) }

\* a handler returns without a transaction
Reply(status) ==
  /\ pc' = "done"
  /\ resp' = [op |-> req.op, id |-> req.id, status |-> status, tx |-> NoTx]
  /\ req' = NoReq

\* -------------------------------------------------------- applyTransaction
\* faulty variants: the status check also lets a finished transaction through / is dropped
Appliable_succeeded(status) == status \in {"planned", "failed", "succeeded"}
Appliable_any(status) == TRUE

\* tx.status === 'planned' || tx.status === 'failed'
Appliable(status) == status \in {"planned", "failed"}

\* the argument lists apply runs, in order
applyArgs(tx) ==
  <<InstallArgs(<<"-r", "requirements.txt">>),
    InstallArgs(<<"-r", "manager_requirements.txt">>)>>
  \o (IF tx.kind = "install" /\ Len(tx.requestedPackages) > 0
      THEN <<InstallArgs(tx.requestedPackages)>>
      ELSE <<>>)
  \o <<CheckArgs>>

ReceiveApply(id) ==
  /\ pc = "idle"
  /\ pc' = "applyTransaction"
  /\ req' = [op |-> "apply", id |-> id]
  /\ resp' = NoResp
  /\ before' = disk
  /\ ran' = <<>>
  /\ nreq' = nreq + 1
  /\ UNCHANGED <<disk, snaps, venv, env, nextId>>
  /\ UNCHANGED rest

\* findTx and the two early returns; then the in-memory status change
ApplyFind ==
  /\ pc = "applyTransaction"
  /\ LET store == readStore(disk)
         index == findIndex(store, req.id)
     IN IF index = 0 THEN Reply(404)
        ELSE IF ~Appliable(store[index].status) THEN Reply(409)
        ELSE /\ pc' = "snapshotBefore"
             /\ req' = [op |-> "apply", id |-> req.id, store |-> store,
                        index |-> index,
                        tx |-> [store[index] EXCEPT !.status = "running",
                                                    !.error = NULL],
                        steps |-> <<>>, after |-> "run", status |-> 200,
                        prev |-> NoFile]
             /\ resp' = resp
  /\ UNCHANGED <<disk, snaps, venv, env, nextId, before, ran, nreq>>
  /\ UNCHANGED rest

\* tx.snapshotBefore = writeFreezeSnapshot(...); store.transactions[index] = tx
ApplySnapshotBefore ==
  /\ pc = "snapshotBefore"
  /\ \E w \in writeFreezeSnapshot(ToString(req.id) \o "-before") :
       /\ snaps' = w.snaps
       /\ ran' = Append(ran, w.command)
       /\ LET tx == [req.tx EXCEPT !.snapshotBefore = w.file]
          IN req' = [req EXCEPT !.tx = tx, !.store[req.index] = tx]
  /\ pc' = "write"
  /\ UNCHANGED <<disk, venv, env, resp, nextId, before, nreq>>
  /\ UNCHANGED rest

\* one steps.push(runPython(...)) of apply
ApplyRun ==
  /\ pc = "run"
  /\ LET cmds == applyArgs(req.tx)
         k == Len(req.steps)
     IN /\ k < Len(cmds)
        /\ \E o \in runPython(cmds[k + 1]) :
             /\ req' = [req EXCEPT !.steps = Append(@, o.step)]
             /\ env' = o.env
             /\ ran' = Append(ran, o.step.command)
        /\ pc' = IF k + 1 = Len(cmds) THEN "snapshotAfter" ELSE "run"
  /\ UNCHANGED <<disk, snaps, venv, resp, nextId, before, nreq>>
  /\ UNCHANGED rest

\* faulty variant: the verdict is read from the first install instead of the pip check
applied_firstStep(tx, steps, snapshotAfter) ==
  LET pipCheck == Head(steps) IN
  [tx EXCEPT !.steps = tx.steps \o steps,
             !.pipHealthy = Some(pipCheck.ok),
             !.snapshotAfter = snapshotAfter,
             !.status = IF pipCheck.ok THEN "succeeded" ELSE "failed",
             !.error = IF pipCheck.ok THEN NULL
                       ELSE "pip check reported conflicts after apply."]

\* the record apply builds after its last step
applied(tx, steps, snapshotAfter) ==
  LET pipCheck == Last(steps) IN
  [tx EXCEPT !.steps = tx.steps \o steps,
             !.pipHealthy = Some(pipCheck.ok),
             !.snapshotAfter = snapshotAfter,
             !.status = IF pipCheck.ok THEN "succeeded" ELSE "failed",
             !.error = IF pipCheck.ok THEN NULL
                       ELSE "pip check reported conflicts after apply."]

ApplyFinish ==
  /\ pc = "snapshotAfter"
  /\ req.op = "apply"
  /\ \E w \in writeFreezeSnapshot(ToString(req.id) \o "-after") :
       /\ snaps' = w.snaps
       /\ ran' = Append(ran, w.command)
       /\ LET tx == applied(req.tx, req.steps, w.file)
          IN req' = [req EXCEPT !.tx = tx, !.store[req.index] = tx,
                                !.after = "return"]
  /\ pc' = "write"
  /\ UNCHANGED <<disk, venv, env, resp, nextId, before, nreq>>
  /\ UNCHANGED rest

\* ------------------------------------------------------ rollbackTransaction
ReceiveRollback(id) ==
  /\ pc = "idle"
  /\ pc' = "rollbackTransaction"
  /\ req' = [op |-> "rollback", id |-> id]
  /\ resp' = NoResp
  /\ before' = disk
  /\ ran' = <<>>
  /\ nreq' = nreq + 1
  /\ UNCHANGED <<disk, snaps, venv, env, nextId>>
  /\ UNCHANGED rest

\* faulty variant: the existsSync test is forgotten
NoSnapshot_nullOnly(tx) == tx.snapshotBefore = NULL

\* !tx.snapshotBefore || !fs.existsSync(tx.snapshotBefore)
NoSnapshot(tx) == tx.snapshotBefore = NULL \/ tx.snapshotBefore \notin DOMAIN snaps

rollbackKind == "repair"

RollbackFind ==
  /\ pc = "rollbackTransaction"
  /\ LET store == readStore(disk)
         index == findIndex(store, req.id)
     IN IF index = 0 THEN Reply(404) /\ nextId' = nextId
        ELSE IF NoSnapshot(store[index]) THEN Reply(409) /\ nextId' = nextId
        ELSE /\ pc' = "rollbackInstall"
             /\ req' = [op |-> "rollback", id |-> req.id, store |-> store,
                        tx |-> [id |-> nextId,
                                kind |-> rollbackKind,
                                status |-> "running",
                                requestedPackages |-> <<>>,
                                planCommands |->
                                  <<"python -m pip install -r <snapshot-before>",
                                    "python -m pip check">>,
                                steps |-> <<>>,
                                pipHealthy |-> Unset,
                                rollbackOf |-> store[index].id,
                                snapshotBefore |-> store[index].snapshotBefore,
                                snapshotAfter |-> NULL,
                                error |-> NULL],
                        steps |-> <<>>, after |-> "return", status |-> 200,
                        prev |-> NoFile]
             /\ nextId' = nextId + 1
             /\ resp' = resp
  /\ UNCHANGED <<disk, snaps, venv, env, before, ran, nreq>>
  /\ UNCHANGED rest

RollbackInstall ==
  /\ pc = "rollbackInstall"
  /\ \E o \in runPython(InstallArgs(<<"-r", req.tx.snapshotBefore>>)) :
       /\ req' = [req EXCEPT !.steps = Append(@, o.step)]
       /\ env' = o.env
       /\ ran' = Append(ran, o.step.command)
  /\ pc' = "rollbackCheck"
  /\ UNCHANGED <<disk, snaps, venv, resp, nextId, before, nreq>>
  /\ UNCHANGED rest

RollbackCheck ==
  /\ pc = "rollbackCheck"
  /\ \E o \in runPython(CheckArgs) :
       /\ req' = [req EXCEPT !.steps = Append(@, o.step)]
       /\ env' = o.env
       /\ ran' = Append(ran, o.step.command)
  /\ pc' = "rollbackAfter"
  /\ UNCHANGED <<disk, snaps, venv, resp, nextId, before, nreq>>
  /\ UNCHANGED rest

\* faulty variant: the verdict is read from the install instead of the pip check
rolledBack_install(tx, steps, snapshotAfter) ==
  LET check == Head(steps) IN
  [tx EXCEPT !.steps = tx.steps \o steps,
             !.pipHealthy = Some(check.ok),
             !.snapshotAfter = snapshotAfter,
             !.status = IF check.ok THEN "rolled_back" ELSE "failed",
             !.error = IF check.ok THEN NULL
                       ELSE "Rollback completed but pip check still reports conflicts."]

\* the record rollback builds after its two steps
rolledBack(tx, steps, snapshotAfter) ==
  LET check == Last(steps) IN
  [tx EXCEPT !.steps = tx.steps \o steps,
             !.pipHealthy = Some(check.ok),
             !.snapshotAfter = snapshotAfter,
             !.status = IF check.ok THEN "rolled_back" ELSE "failed",
             !.error = IF check.ok THEN NULL
                       ELSE "Rollback completed but pip check still reports conflicts."]

RollbackFinish ==
  /\ pc = "rollbackAfter"
  /\ \E w \in writeFreezeSnapshot(ToString(req.tx.id) \o "-after") :
       /\ snaps' = w.snaps
       /\ ran' = Append(ran, w.command)
       /\ LET tx == rolledBack(req.tx, req.steps, w.file)
          IN req' = [req EXCEPT !.tx = tx, !.store = Append(@, tx)]
  /\ pc' = "write"
  /\ UNCHANGED <<disk, venv, env, resp, nextId, before, nreq>>
  /\ UNCHANGED rest

\* ------------------------------------------------------------ environment
\* the process dies inside a handler: its locals are lost, the files stay
Crash ==
  /\ pc \notin {"idle", "done"}
  /\ pc' = "idle"
  /\ req' = NoReq
  /\ before' = NoFile
  /\ ran' = <<>>
  /\ UNCHANGED <<disk, snaps, venv, env, resp, nextId, nreq>>
  /\ UNCHANGED rest

\* the response has been sent; the server waits for the next request
Return ==
  /\ pc = "done"
  /\ pc' = "idle"
  /\ resp' = NoResp
  /\ before' = NoFile
  /\ ran' = <<>>
  /\ UNCHANGED <<disk, snaps, venv, env, req, nextId, nreq>>
  /\ UNCHANGED rest

\* the virtualenv is created or removed between requests
VenvChange ==
  /\ pc = "idle"
  /\ venv' = ~venv
  /\ UNCHANGED <<disk, snaps, env, pc, req, resp, nextId, before, ran, nreq>>
  /\ UNCHANGED rest

\* the snapshot files a stored transaction names as its snapshotBefore (the
\* only snapshot files the program ever reads back)
BeforeFiles ==
  {p \in DOMAIN snaps :
     \E i \in 1..Len(readStore(disk)) : readStore(disk)[i].snapshotBefore = p}

\* a snapshot file is deleted between requests
RemoveSnapshot(path) ==
  /\ pc = "idle"
  /\ path \in DOMAIN snaps
  /\ snaps' = [p \in DOMAIN snaps \ {path} |-> snaps[p]]
  /\ UNCHANGED <<disk, venv, env, pc, req, resp, nextId, before, ran, nreq>>
  /\ UNCHANGED rest

\* the ids a request can name: every id handed out, and one that was not
Ids == 1..nextId

\* the server's steps while fewer than n requests have been received
NextN(n) ==
  \/ \E input \in PlanInputs : nreq < n /\ ReceiveCreate(input)
  \/ CreatePlanBuild
  \/ WriteBegin
  \/ WriteEnd
  \/ \E id \in Ids : nreq < n /\ ReceiveApply(id)
  \/ ApplyFind
  \/ ApplySnapshotBefore
  \/ ApplyRun
  \/ ApplyFinish
  \/ \E id \in Ids : nreq < n /\ ReceiveRollback(id)
  \/ RollbackFind
  \/ RollbackInstall
  \/ RollbackCheck
  \/ RollbackFinish
  \/ Crash
  \/ Return
  \/ VenvChange
  \/ \E path \in BeforeFiles : RemoveSnapshot(path)

Next == NextN(MaxRequests)

Spec == Init /\ [][Next]_vars

\* the same server over one more request
NextLong == NextN(MaxRequestsLong)

SpecLong == Init /\ [][NextLong]_vars

NextCreate ==
  \/ /\ nextId <= MaxCreates
     /\ ReceiveCreate([mode |-> "repair", packages |-> [isArray |-> FALSE, items |-> <<>>]])
  \/ CreatePlanBuild
  \/ WriteBegin
  \/ WriteEnd
  \/ Return

SpecCreate == Init /\ [][NextCreate]_vars

\* ------------------------------------------- sanitizePackages on its own
\* the strings a caller puts in packages
SpecifierStrings == {"numpy", " numpy", "a;b", "torch==2.4", "\tnumpy", " "}
\* the longest packages array
MaxItems == 3

RECURSIVE SeqsUpTo(_, _)
SeqsUpTo(S, n) ==
  IF n = 0 THEN {<<>>}
  ELSE LET shorter == SeqsUpTo(S, n - 1)
       IN shorter \cup {Append(q, x) : q \in shorter, x \in S}

\* the values sanitizePackages is called with: arrays of strings, and a
\* value that is not an array
SanitizeInputs ==
  {[isArray |-> TRUE, items |-> q] : q \in SeqsUpTo(SpecifierStrings, MaxItems)}
  \cup {[isArray |-> FALSE, items |-> <<>>]}

InitSanitize ==
  /\ disk = NoFile
  /\ snaps = <<>>
  /\ venv = TRUE
  /\ env = BaseEnv
  /\ pc = "sanitizePackages"
  /\ req \in {[op |-> "sanitizePackages", input |-> i] : i \in SanitizeInputs}
  /\ resp = NoResp
  /\ nextId = 1
  /\ nreq = 0
  /\ before = NoFile
  /\ ran = <<>>
  /\ tier = ""
  /\ ServersIdle

\* one call of sanitizePackages; its result is kept in resp
SanitizeCall ==
  /\ pc = "sanitizePackages"
  /\ resp' = [op |-> "sanitizePackages", input |-> req.input,
              out |-> sanitizePackages(req.input)]
  /\ req' = NoReq
  /\ pc' = "done"
  /\ UNCHANGED <<disk, snaps, venv, env, nextId, nreq, before, ran>>
  /\ UNCHANGED rest

NextSanitize == SanitizeCall

SpecSanitize == InitSanitize /\ [][NextSanitize]_vars

\* ------------------------------------------------------------ policy gate
\* TIER_RULES[tier].allowedPolicies, the empty set when the key is absent
TIER_RULES(t) ==
  IF t = "free" THEN {"open"}
  ELSE IF t = "pro" THEN {"open", "non-commercial"}
  ELSE IF t = "enterprise" THEN {"open", "non-commercial", "commercial"}
  ELSE {}

HasRule(t) == t \in {"free", "pro", "enterprise"}

\* evaluatePolicy: TIER_RULES[tier] || TIER_RULES['free'], then the filter
evaluatePolicy(t, policies) ==
  LET allowedPolicies == IF HasRule(t) THEN TIER_RULES(t) ELSE TIER_RULES("free")
      violations == SelectSeq(policies, LAMBDA p : p \notin allowedPolicies)
  IN [allowed |-> Len(violations) = 0, violations |-> violations]

\* process.env.MODUSNAP_LICENSE_TIER || 'free'
userTier == IF tier = "" THEN "free" ELSE tier

\* the values the environment variable is given
Tiers == {"", "free", "pro", "enterprise", "team"}

NodeLicensePolicy == {"open", "non-commercial", "commercial", "unknown"}
\* the longest policies array
MaxPolicies == 2
\* requests the server receives under SpecPlan
MaxPlanRequests == 2

\* the bodies posted to the plan routes; a body without policies reads as []
PlanBodies ==
  { [mode |-> m.mode, packages |-> m.packages, policies |-> ps] :
      m \in { [mode |-> "repair", packages |-> [isArray |-> FALSE, items |-> <<>>]],
              [mode |-> "install",
               packages |-> [isArray |-> TRUE,
                             items |-> <<"torch==2.4", "rm -rf /", "pillow">>]] },
      ps \in SeqsUpTo(NodeLicensePolicy, MaxPolicies) }

InitPlan ==
  /\ disk = NoFile
  /\ snaps = <<>>
  /\ venv = TRUE
  /\ env = BaseEnv
  /\ pc = "idle"
  /\ req = NoReq
  /\ resp = NoResp
  /\ nextId = 1
  /\ nreq = 0
  /\ before = NoFile
  /\ ran = <<>>
  /\ tier \in Tiers
  /\ ServersIdle

\* a request arrives at the plan route that evaluates policies
ReceivePlan(body) ==
  /\ pc = "idle"
  /\ pc' = "envPlan"
  /\ req' = [op |-> "envPlan", input |-> body]
  /\ resp' = NoResp
  /\ before' = disk
  /\ ran' = <<>>
  /\ nreq' = nreq + 1
  /\ UNCHANGED <<disk, snaps, venv, env, nextId>>
  /\ UNCHANGED rest

\* the route up to its createPlan call: 403 with the violations, or go on
PlanEvaluate ==
  /\ pc = "envPlan"
  /\ LET evaluation == evaluatePolicy(userTier, req.input.policies)
     IN IF ~evaluation.allowed
        THEN /\ pc' = "done"
             /\ resp' = [op |-> "envPlan", id |-> NoId, status |-> 403, tx |-> NoTx,
                         violations |-> evaluation.violations]
             /\ req' = NoReq
        ELSE /\ pc' = "createPlan"
             /\ req' = [op |-> "createPlan", input |-> req.input]
             /\ resp' = resp
  /\ UNCHANGED <<disk, snaps, venv, env, nextId, nreq, before, ran>>
  /\ UNCHANGED rest

NextPlan ==
  \/ \E body \in PlanBodies : nreq < MaxPlanRequests /\ ReceivePlan(body)
  \/ PlanEvaluate
  \/ \E body \in PlanBodies : nreq < MaxPlanRequests /\ ReceiveCreate(body)
  \/ CreatePlanBuild
  \/ WriteBegin
  \/ WriteEnd
  \/ Return

SpecPlan == InitPlan /\ [][NextPlan]_vars

\* ------------------------------------------------- the server processes
\* Every handler below is synchronous from its first subprocess to its last
\* (spawnSync): a server's thread is inside at most one handler, and a
\* handler's commands run one after another.  Nothing is shared between
\* server processes but the backend directory.
Writers ==
  {"applyTransaction", "rollbackTransaction", "compatibility-set", "diagnostics-fix"}

\* the read-only requests
Reads == {"env.list", "env.get", "diagnostics.status"}

InstallCore == InstallArgs(<<"-r", "requirements.txt">>)
InstallManager == InstallArgs(<<"-r", "manager_requirements.txt">>)
InstallCompat == InstallArgs(<<"-r", "user/modusnap_compatible_requirements.txt">>)

\* the package-manager commands one run of a handler makes, on the runs where
\* its first pip check passes
WriterCommands(op) ==
  IF op = "applyTransaction"
  THEN { <<FreezeArgs>> \o applyArgs([kind |-> k, requestedPackages |-> <<"numpy">>])
           \o <<FreezeArgs>> : k \in {"repair", "install"} }
  ELSE IF op = "rollbackTransaction"
  THEN { <<InstallArgs(<<"-r", snapshotPath("1-before")>>), CheckArgs, FreezeArgs>> }
  ELSE IF op = "compatibility-set"
  THEN { <<InstallCore, InstallManager>> \o mid
           \o <<CheckArgs, <<"-m", "pip", "list", "--format=json">>, FreezeArgs>>
         : mid \in {<<>>, <<InstallCompat>>} }
  ELSE { <<InstallCore, InstallManager>> \o mid \o <<CheckArgs>>
         : mid \in {<<>>, <<InstallCompat>>} }

\* a request for an environment-mutating operation reaches a free thread
StartWriter(s, op) ==
  /\ thread[s].op = "none"
  /\ \E cmds \in WriterCommands(op) :
       thread' = [thread EXCEPT ![s] = [op |-> op, cmds |-> cmds, child |-> FALSE]]
  /\ UNCHANGED <<disk, snaps, venv, env, pc, req, resp, nextId, nreq, before, ran>>
  /\ UNCHANGED <<tier, inbox, sessionVars, hostVars>>

\* spawnSync starts the next command and the thread blocks on it
SpawnSync(s) ==
  /\ thread[s].op \in Writers
  /\ ~thread[s].child
  /\ thread[s].cmds # <<>>
  /\ thread' = [thread EXCEPT ![s].child = TRUE]
  /\ UNCHANGED <<disk, snaps, venv, env, pc, req, resp, nextId, nreq, before, ran>>
  /\ UNCHANGED <<tier, inbox, sessionVars, hostVars>>

\* the command exits (or is killed at the timeout) and spawnSync returns
ChildExit(s) ==
  /\ thread[s].child
  /\ thread' = [thread EXCEPT ![s].child = FALSE, ![s].cmds = Tail(@)]
  /\ UNCHANGED <<disk, snaps, venv, env, pc, req, resp, nextId, nreq, before, ran>>
  /\ UNCHANGED <<tier, inbox, sessionVars, hostVars>>

\* the handler returns its response and the thread is free again
FinishWriter(s) ==
  /\ thread[s].op \in Writers
  /\ ~thread[s].child
  /\ thread[s].cmds = <<>>
  /\ thread' = [thread EXCEPT ![s] = NoHandler]
  /\ UNCHANGED <<disk, snaps, venv, env, pc, req, resp, nextId, nreq, before, ran>>
  /\ UNCHANGED <<tier, inbox, sessionVars, hostVars>>

\* a read-only request arrives at the server's socket, whatever the thread does
IssueRead(s, r) ==
  /\ inbox[s] = "none"
  /\ inbox' = [inbox EXCEPT ![s] = r]
  /\ UNCHANGED <<disk, snaps, venv, env, pc, req, resp, nextId, nreq, before, ran>>
  /\ UNCHANGED <<tier, thread, sessionVars, hostVars>>

\* the thread takes the waiting request, runs its handler and answers
ServeRead(s) ==
  /\ inbox[s] \in Reads
  /\ thread[s].op = "none"
  /\ inbox' = [inbox EXCEPT ![s] = "none"]
  /\ UNCHANGED <<disk, snaps, venv, env, pc, req, resp, nextId, nreq, before, ran>>
  /\ UNCHANGED <<tier, thread, sessionVars, hostVars>>

NextServers ==
  \/ \E s \in Servers, op \in Writers : StartWriter(s, op)
  \/ \E s \in Servers : SpawnSync(s)
  \/ \E s \in Servers : ChildExit(s)
  \/ \E s \in Servers : FinishWriter(s)
  \/ \E s \in Servers, r \in Reads : IssueRead(s, r)
  \/ \E s \in Servers : ServeRead(s)

SpecServers == Init /\ [][NextServers]_vars

\* --------------------------------------------------- compatibility preflight
\* the regular expressions of assessItem, tested on the lowercased text
Matches(text, pats) == \E pat \in pats : Contains(text, pat)

\* faulty variant: without "requires nvidia"
cudaOnlyMarkers_five(text) ==
  Matches(text, {"cuda-only", "requires cuda", "nvidia-only", "tensorrt required",
                 "triton required"})

cudaOnlyMarkers(text) ==
  Matches(text, {"cuda-only", "requires cuda", "nvidia-only", "requires nvidia",
                 "tensorrt required", "triton required"})

cudaMarkers(text) == Matches(text, {"cuda", "nvidia", "tensorrt", "cu12", "cu11"})

rocmOnlyMarkers(text) == Matches(text, {"rocm-only", "requires rocm", "hip required"})

rocmMarkers(text) == Matches(text, {"rocm", "hip"})

darwinMarkers(text) == Matches(text, {"xformers", "triton", "flash-attn", "bitsandbytes"})

\* assessItem: the decision for one item under a hardware profile
assessItem(text, h) ==
  LET cuda == IF ~h.hasNvidia /\ cudaOnlyMarkers(text) THEN "blocked"
              ELSE IF ~h.hasNvidia /\ cudaMarkers(text) THEN "warning"
              ELSE "installable"
      rocm == IF ~h.hasRocm /\ rocmOnlyMarkers(text) THEN "blocked"
              ELSE IF ~h.hasRocm /\ rocmMarkers(text) /\ cuda # "blocked" THEN "warning"
              ELSE cuda
  IN IF h.isDarwinArm64 /\ darwinMarkers(text) /\ rocm # "blocked" THEN "warning"
     ELSE rocm

\* the hardware profiles
AllProfiles ==
  {[hasNvidia |-> n, hasRocm |-> r, isDarwinArm64 |-> d] : n, r, d \in BOOLEAN}

\* the texts of the catalog rows, and assessItem on each of them
CatalogTexts == {"plain", "cuda", "requires cuda"}
Assessed == [text \in CatalogTexts |-> [h \in AllProfiles |-> assessItem(text, h)]]

\* the preflight route's perItem for the rows it is sent
perItem(rs) ==
  [i \in 1..Len(rs) |-> [key |-> rs[i].key, decision |-> Assessed[rs[i].text][hw]]]

KeysWhere(entries, Test(_)) ==
  LET hits == SelectSeq(entries, Test) IN [i \in 1..Len(hits) |-> hits[i].key]

\* ------------------------------------------------------ install orchestrator
isInstalledPackAction(action) ==
  action \in {"enabled", "disabled", "updatable", "try-update", "uninstall",
              "import-fail", "invalid-installation"}

getInstallCandidates(rs) ==
  SelectSeq(rs, LAMBDA row : ~isInstalledPackAction(row.action))

\* a catalog of n rows; keys are the row numbers
Catalog(n, pattern) ==
  [k \in 1..n |->
     IF pattern = "plain"
     THEN [key |-> k, action |-> "not-installed", text |-> "plain"]
     ELSE IF k % 4 = 1 THEN [key |-> k, action |-> "not-installed", text |-> "plain"]
     ELSE IF k % 4 = 2 THEN [key |-> k, action |-> "not-installed", text |-> "cuda"]
     ELSE IF k % 4 = 3 THEN [key |-> k, action |-> "try-install", text |-> "requires cuda"]
     ELSE [key |-> k, action |-> "enabled", text |-> "plain"]]

\* the catalog sizes under SpecSession
Sizes == {1, 4, 41}
Catalogs == {Catalog(n, pattern) : n \in Sizes, pattern \in {"plain", "mixed"}}

HwProfiles == {NoProfile, [NoProfile EXCEPT !.hasNvidia = TRUE]}

\* runs of executeInstallSession under SpecSession
MaxRuns == 1
Event(type, keys) == [type |-> type, keys |-> keys]
Count(type) == Len(SelectSeq(log, LAMBDA e : e.type = type))

InitSession ==
  /\ disk = NoFile
  /\ snaps = <<>>
  /\ venv = TRUE
  /\ env = BaseEnv
  /\ pc = "idle"
  /\ req = NoReq
  /\ resp = NoResp
  /\ nextId = 1
  /\ nreq = 0
  /\ before = NoFile
  /\ ran = <<>>
  /\ tier = ""
  /\ thread = [s \in Servers |-> NoHandler]
  /\ inbox = [s \in Servers |-> "none"]
  /\ rows \in Catalogs
  /\ hw \in HwProfiles
  /\ session = NoSession
  /\ cancel = FALSE
  /\ spc = "none"
  /\ loc = NoLocals
  /\ log = <<>>
  /\ nrun = 0
  /\ HostIdle

\* what no orchestrator step writes
offPage ==
  <<disk, snaps, venv, env, pc, req, resp, nextId, nreq, before, ran, tier,
    thread, inbox, hostVars>>

\* updateInstallItems
updateInstallItems(items, keys, status) ==
  [i \in 1..Len(items) |->
     IF InSeq(items[i].key, keys) THEN [items[i] EXCEPT !.status = status]
     ELSE items[i]]

\* faulty variant: nothing is taken out
incompatibleKeys_none(entries) == <<>>

\* entry.decision !== 'installable'
incompatibleKeys(entries) ==
  KeysWhere(entries, LAMBDA entry : entry.decision # "installable")

\* openInstallCenter up to its preflight request (scope all_visible)
OpenInstallCenter ==
  /\ spc = "none"
  /\ ~session.open
  /\ LET candidates == getInstallCandidates(rows)
     IN /\ Len(candidates) > 0
        /\ loc' = [fn |-> "openInstallCenter", rows |-> candidates]
  /\ spc' = "openPreflight"
  /\ UNCHANGED <<rows, hw, session, cancel, log, nrun>>
  /\ UNCHANGED offPage

\* openInstallCenter from the preflight response on
OpenPreflightReply(ok) ==
  /\ spc = "openPreflight"
  /\ LET incompatible == incompatibleKeys(perItem(loc.rows))
         installableRows == SelectSeq(loc.rows, LAMBDA row : ~InSeq(row.key, incompatible))
     IN session' =
          IF ok /\ Len(installableRows) > 0
          THEN [open |-> TRUE, running |-> FALSE,
                items |-> [i \in 1..Len(installableRows) |->
                             [key |-> installableRows[i].key, selected |-> TRUE,
                              status |-> "pending"]],
                currentChunk |-> 0, totalChunks |-> 0]
          ELSE session
  /\ spc' = "none"
  /\ loc' = NoLocals
  /\ UNCHANGED <<rows, hw, cancel, log, nrun>>
  /\ UNCHANGED offPage

\* the hardware profile file changes while no orchestrator call is in flight
ProfileChange ==
  /\ spc = "none"
  /\ hw' \in HwProfiles \ {hw}
  /\ UNCHANGED <<rows, session, cancel, spc, loc, log, nrun>>
  /\ UNCHANGED offPage

\* the rows a catalog reload can show as installed meanwhile
ReloadKeys == {1}

\* loadManagerData shows a pack as installed (it was installed elsewhere)
PackInstalled(k) ==
  /\ spc = "none"
  /\ k \in DOMAIN rows
  /\ ~isInstalledPackAction(rows[k].action)
  /\ rows' = [rows EXCEPT ![k].action = "enabled"]
  /\ UNCHANGED <<hw, session, cancel, spc, loc, log, nrun>>
  /\ UNCHANGED offPage

\* the catch and finally blocks: the session stops; reason "" when it did not fail
Stop(items, events) ==
  /\ session' = [session EXCEPT !.running = FALSE, !.items = items]
  /\ spc' = "none"
  /\ loc' = NoLocals
  /\ log' = log \o events

Failed(reason) == <<Event("failed", <<reason>>)>>

\* executeInstallSession up to its preflight request
ExecuteInstallSession ==
  /\ spc = "none"
  /\ session.open
  /\ ~session.running
  /\ nrun < MaxRuns
  /\ nrun' = nrun + 1
  /\ cancel' = FALSE
  /\ LET selected == SelectSeq(session.items, LAMBDA item : item.selected)
         selectedKeys == [i \in 1..Len(selected) |-> selected[i].key]
         candidateRows ==
           SelectSeq(rows, LAMBDA row : /\ InSeq(row.key, selectedKeys)
                                        /\ ~isInstalledPackAction(row.action))
     IN IF Len(candidateRows) = 0
        THEN UNCHANGED <<session, spc, loc, log>>
        ELSE /\ session' = [session EXCEPT !.running = TRUE]
             /\ spc' = "preflight"
             /\ loc' = [fn |-> "executeInstallSession", candidateRows |-> candidateRows]
             /\ log' = <<>>
  /\ UNCHANGED <<rows, hw>>
  /\ UNCHANGED offPage

\* from the preflight response to the compatibility-set request
PreflightReply(ok) ==
  /\ spc = "preflight"
  /\ IF ~ok THEN Stop(session.items, Failed("Preflight failed."))
     ELSE LET entries == perItem(loc.candidateRows)
              incompatible == incompatibleKeys(entries)
              installableRows ==
                SelectSeq(loc.candidateRows, LAMBDA row : ~InSeq(row.key, incompatible))
              seen == <<Event("preflight-blocked",
                              KeysWhere(entries, LAMBDA e : e.decision = "blocked")),
                        Event("preflight-warning",
                              KeysWhere(entries, LAMBDA e : e.decision = "warning"))>>
          IN IF Len(installableRows) = 0
             THEN Stop(updateInstallItems(session.items, incompatible, "skipped"), seen)
             ELSE /\ session' = [session EXCEPT
                                   !.items = updateInstallItems(@, incompatible, "skipped")]
                  /\ spc' = "prepare"
                  /\ loc' = [fn |-> "executeInstallSession",
                             installableRows |-> installableRows]
                  /\ log' = log \o seen
  /\ UNCHANGED <<rows, hw, cancel, nrun>>
  /\ UNCHANGED offPage

\* prepareCompatibleHardwareSet returns (the cached set, or a rebuilt one) or throws
PrepareReply(ok) ==
  /\ spc = "prepare"
  /\ IF ~ok THEN Stop(session.items, Failed("Failed to create compatible hardware set"))
     ELSE /\ spc' = "snapshot"
          /\ UNCHANGED <<session, loc, log>>
  /\ UNCHANGED <<rows, hw, cancel, nrun>>
  /\ UNCHANGED offPage

\* faulty variant: the small chunk size is used for every session
chunkSizeFor_small(n) == 20

\* installableRows.length > 200 ? 20 : 40
chunkSizeFor(n) == IF n > 200 THEN 20 ELSE 40

\* Math.ceil(n / size)
Ceil(n, size) == (n + size - 1) \div size

\* the snapshot save has answered (its status is not looked at) or the fetch threw
SnapshotReply(ok) ==
  /\ spc = "snapshot"
  /\ IF ~ok THEN Stop(session.items, Failed("fetch failed"))
     ELSE LET n == Len(loc.installableRows)
              chunkSize == chunkSizeFor(n)
          IN /\ session' = [session EXCEPT !.totalChunks = Ceil(n, chunkSize)]
             /\ loc' = [fn |-> "executeInstallSession",
                        installableRows |-> loc.installableRows,
                        chunkSize |-> chunkSize, i |-> 0, chunkKeys |-> <<>>]
             /\ spc' = "loop"
             /\ log' = log
  /\ UNCHANGED <<rows, hw, cancel, nrun>>
  /\ UNCHANGED offPage

\* faulty variant: the cancel flag is not looked at
Canceled_never(flag) == FALSE

\* installCancelRef.current, as the loop and the code after it read it
Canceled(flag) == flag

\* one pass of the for loop up to its await, or the loop's end and what
\* follows it up to the first await
LoopStep ==
  /\ spc = "loop"
  /\ LET n == Len(loc.installableRows) IN
     IF loc.i < n /\ ~Canceled(cancel)
     THEN LET chunk == SubSeq(loc.installableRows, loc.i + 1, Min(loc.i + loc.chunkSize, n))
              chunkKeys == [j \in 1..Len(chunk) |-> chunk[j].key]
          IN /\ session' = [session EXCEPT
                              !.currentChunk = (loc.i \div loc.chunkSize) + 1,
                              !.items = updateInstallItems(@, chunkKeys, "queued")]
             /\ loc' = [loc EXCEPT !.chunkKeys = chunkKeys]
             /\ log' = Append(log, Event("batch", chunkKeys))
             /\ spc' = "batch"
     ELSE IF Canceled(cancel)
     THEN Stop(session.items,
               IF loc.i < n THEN <<Event("canceled", <<>>)>> ELSE <<>>)
     ELSE /\ spc' = "drain"
          /\ log' = Append(log, Event("drain", <<>>))
          /\ UNCHANGED <<session, loc>>
  /\ UNCHANGED <<rows, hw, cancel, nrun>>
  /\ UNCHANGED offPage

\* what the batch route does with one chunk: "queued" (the Engine took the
\* batch; the route then calls queue/start), "rejected" (the Engine answered
\* with an error), "invalid" (the route answered before calling the Engine)
BatchOutcomes == {"queued", "rejected", "invalid"}

\* the batch route's calls, then the rest of the loop pass
BatchReply(outcome) ==
  /\ spc = "batch"
  /\ log' = log \o
       (IF outcome = "queued"
        THEN <<Event("queue/batch", loc.chunkKeys), Event("queue/start", <<>>)>>
        ELSE IF outcome = "rejected" THEN <<Event("queue/batch", loc.chunkKeys)>>
        ELSE <<>>)
  /\ session' = [session EXCEPT
                   !.items = updateInstallItems(@, loc.chunkKeys,
                               IF outcome = "queued" THEN "done" ELSE "failed")]
  /\ loc' = [loc EXCEPT !.i = @ + loc.chunkSize, !.chunkKeys = <<>>]
  /\ spc' = "loop"
  /\ UNCHANGED <<rows, hw, cancel, nrun>>
  /\ UNCHANGED offPage

\* faulty variant: the pending count is not looked at
QueueIdle_notProcessing(reply) == reply.ok /\ ~reply.is_processing

\* activityRes.ok && !status.is_processing && (status.pending_count ?? 0) === 0
QueueIdle(reply) == reply.ok /\ ~reply.is_processing /\ reply.pending_count = 0

\* the answers of one queue-status poll: the fetch threw, the response is not
\* ok, or it carries the Engine's queue status
PollReplies ==
  {[threw |-> TRUE, ok |-> FALSE, is_processing |-> FALSE, pending_count |-> 0],
   [threw |-> FALSE, ok |-> FALSE, is_processing |-> FALSE, pending_count |-> 0]}
  \cup {[threw |-> FALSE, ok |-> TRUE, is_processing |-> p, pending_count |-> c] :
          p \in BOOLEAN, c \in 0..1}

\* the log with this poll's answer as its last event
Polled(reply) ==
  (IF Last(log).type = "poll" THEN SubSeq(log, 1, Len(log) - 1) ELSE log)
  \o <<Event("poll", <<reply>>)>>

\* one pass of waitForQueueIdle; on idle, the code up to the reboot request
DrainPoll(reply) ==
  /\ spc = "drain"
  /\ IF reply.threw
     THEN /\ session' = [session EXCEPT !.running = FALSE]
          /\ spc' = "none"
          /\ loc' = NoLocals
          /\ log' = Polled(reply) \o Failed("fetch failed")
     ELSE IF QueueIdle(reply)
     THEN /\ log' = Polled(reply) \o <<Event("reboot", <<>>)>>
          /\ spc' = "reboot"
          /\ UNCHANGED <<session, loc>>
     ELSE /\ log' = Polled(reply)
          /\ UNCHANGED <<session, spc, loc>>
  /\ UNCHANGED <<rows, hw, cancel, nrun>>
  /\ UNCHANGED offPage

\* waitForQueueIdle's clock runs out after a poll that was not idle
DrainTimeout ==
  /\ spc = "drain"
  /\ Last(log).type = "poll"
  /\ Stop(session.items, Failed("Bulk queue did not become idle in time."))
  /\ UNCHANGED <<rows, hw, cancel, nrun>>
  /\ UNCHANGED offPage

\* the reboot route has answered
RebootReply(ok) ==
  /\ spc = "reboot"
  /\ IF ~ok THEN Stop(session.items, Failed("Automatic apply failed after queue."))
     ELSE /\ spc' = "ready"
          /\ UNCHANGED <<session, loc, log>>
  /\ UNCHANGED <<rows, hw, cancel, nrun>>
  /\ UNCHANGED offPage

\* waitForBackendReady, the catalog refresh, the dependency fix, loadManagerData
Finish(ready) ==
  /\ spc = "ready"
  /\ Stop(session.items,
          IF ready THEN <<Event("finished", <<>>)>>
          ELSE Failed("Backend did not become ready after apply cycle."))
  /\ UNCHANGED <<rows, hw, cancel, nrun>>
  /\ UNCHANGED offPage

\* the Cancel button, enabled while the session runs
Cancel ==
  /\ session.running
  /\ ~cancel
  /\ cancel' = TRUE
  /\ log' = Append(log, Event("cancel", <<>>))
  /\ UNCHANGED <<rows, hw, session, spc, loc, nrun>>
  /\ UNCHANGED offPage

NextSession ==
  \/ OpenInstallCenter
  \/ \E ok \in BOOLEAN : OpenPreflightReply(ok)
  \/ ProfileChange
  \/ \E k \in ReloadKeys : PackInstalled(k)
  \/ ExecuteInstallSession
  \/ \E ok \in BOOLEAN : PreflightReply(ok)
  \/ \E ok \in BOOLEAN : PrepareReply(ok)
  \/ \E ok \in BOOLEAN : SnapshotReply(ok)
  \/ LoopStep
  \/ \E outcome \in BatchOutcomes : BatchReply(outcome)
  \/ \E reply \in PollReplies : DrainPoll(reply)
  \/ DrainTimeout
  \/ \E ok \in BOOLEAN : RebootReply(ok)
  \/ \E ready \in BOOLEAN : Finish(ready)
  \/ Cancel

SpecSession == InitSession /\ [][NextSession]_vars

\* the catalog sizes under SpecChunks
ChunkSizes == {1, 40, 41, 80, 200, 201, 240, 250}

InitChunks ==
  /\ disk = NoFile
  /\ snaps = <<>>
  /\ venv = TRUE
  /\ env = BaseEnv
  /\ pc = "idle"
  /\ req = NoReq
  /\ resp = NoResp
  /\ nextId = 1
  /\ nreq = 0
  /\ before = NoFile
  /\ ran = <<>>
  /\ tier = ""
  /\ thread = [s \in Servers |-> NoHandler]
  /\ inbox = [s \in Servers |-> "none"]
  /\ rows \in {Catalog(n, "plain") : n \in ChunkSizes}
  /\ hw = NoProfile
  /\ session = NoSession
  /\ cancel = FALSE
  /\ spc = "none"
  /\ loc = NoLocals
  /\ log = <<>>
  /\ nrun = 0
  /\ HostIdle

\* a session that is not canceled and in which no call fails
NextChunks ==
  \/ OpenInstallCenter
  \/ OpenPreflightReply(TRUE)
  \/ ExecuteInstallSession
  \/ PreflightReply(TRUE)
  \/ PrepareReply(TRUE)
  \/ SnapshotReply(TRUE)
  \/ LoopStep
  \/ BatchReply("queued")
  \/ DrainPoll([threw |-> FALSE, ok |-> TRUE, is_processing |-> FALSE, pending_count |-> 0])
  \/ RebootReply(TRUE)
  \/ Finish(TRUE)

SpecChunks == InitChunks /\ [][NextChunks]_vars

\* ------------------------------------------------------------ text order
\* the characters of the texts below, in code-unit order
CodeOrder == " !',-.0123456789:<=>_abcdefghijklmnopqrstuvwxyz|~"
CodeOf(c) == IndexOf(CodeOrder, c)

\* a < b as Array.prototype.sort and Python's sorted compare strings
RECURSIVE StrLess(_, _)
StrLess(a, b) ==
  IF b = "" THEN FALSE
  ELSE IF a = "" THEN TRUE
  ELSE LET ca == CodeOf(SubSeq(a, 1, 1))
           cb == CodeOf(SubSeq(b, 1, 1))
       IN IF ca # cb THEN ca < cb
          ELSE StrLess(SubSeq(a, 2, Len(a)), SubSeq(b, 2, Len(b)))

SortStrings(s) == SortSeq(s, StrLess)

\* the elements of s in order of first appearance (Array.from(new Set(s)))
RECURSIVE Distinct(_)
Distinct(s) ==
  IF s = <<>> THEN <<>>
  ELSE LET front == Distinct(SubSeq(s, 1, Len(s) - 1))
       IN IF InSeq(Last(s), front) THEN front ELSE Append(front, Last(s))

\* ----------------------------------------------------------------- AutoHeal
\* lines of pip check output
FastapiLine ==
  "fastapi 0.115.0 has requirement starlette<0.47.0,>=0.40.0, but you have starlette 0.50.0."
SseLine ==
  "sse-starlette 3.0.2 has requirement starlette>=0.49.1, but you have starlette 0.46.2."
GradioLine ==
  "gradio 5.35.0 has requirement pillow<12.0,>=8.0, but you have pillow 12.0.0."
TyperLine ==
  "typer-slim 0.20.0 has requirement typer>=0.24.0, but you have typer 0.15.4."
MissingLine == "foo 1.0 requires bar, which is not installed."
OtherLine == "foo 1.0 has requirement baz>=2, but you have baz 1.0."

CheckOk == [ok |-> TRUE, lines |-> <<"no broken requirements found.">>]
Broken(lines) == [ok |-> FALSE, lines |-> lines]

\* what pip check can print when it fails
BrokenOutputs ==
  {Broken(lines) : lines \in {<<"modusnap-comfyui-backend/venv missing">>,
                              <<MissingLine, OtherLine>>, <<OtherLine, MissingLine>>,
                              <<FastapiLine, SseLine>>, <<GradioLine>>, <<TyperLine>>}}
CheckOutputs == {CheckOk} \cup BrokenOutputs

\* output.includes(pat)
Includes(out, pat) == \E i \in 1..Len(out.lines) : Contains(out.lines[i], pat)
\* lines.some(line => every pattern is in line)
SomeLine(out, pats) ==
  \E i \in 1..Len(out.lines) : \A pat \in pats : Contains(out.lines[i], pat)

\* the capture of /has requirement (.+), but you have /i or of
\* /requires (.+), which is not installed\./i in one line, "" when neither matches
RequiredSpec(line) ==
  LET a == IndexOf(line, "has requirement ")
      b == LastIndexOf(line, ", but you have ")
      c == IndexOf(line, "requires ")
      d == LastIndexOf(line, ", which is not installed.")
  IN IF a > 0 /\ b >= a + Len("has requirement ") + 1
     THEN Trim(SubSeq(line, a + Len("has requirement "), b - 1))
     ELSE IF c > 0 /\ d >= c + Len("requires ") + 1
     THEN Trim(SubSeq(line, c + Len("requires "), d - 1))
     ELSE ""

\* extractPipRequiredSpecs
extractPipRequiredSpecs(out) ==
  Distinct(SelectSeq([i \in 1..Len(out.lines) |-> RequiredSpec(out.lines[i])],
                     LAMBDA spec : spec # ""))

\* specs.slice().sort().join('|')
specKey(specs) == Join(SortStrings(specs), "|")

\* parsePipConflicts
parsePipConflicts(out) ==
  [hasShaderflowScipyConflict |-> SomeLine(out, {"shaderflow", "scipy~=1.15.3"}),
   hasGradioPillowConflict |-> SomeLine(out, {"gradio", "pillow<12.0"}),
   hasDepthflowMissingDeps |->
     \/ SomeLine(out, {"depthflow", "requires gradio"})
     \/ SomeLine(out, {"depthflow", "requires shaderflow"}),
   hasRembgStrictPins |->
     \/ SomeLine(out, {"rembg", "requires pillow"})
     \/ SomeLine(out, {"rembg", "requires scipy"}),
   hasFastapiStarletteConflict |->
     SomeLine(out, {"fastapi", "has requirement starlette<0.47.0,>=0.40.0"}),
   hasSSEStarletteConflict |->
     SomeLine(out, {"sse-starlette", "has requirement starlette>=0.49.1"})]

\* the two implementations of the loop
Healers == {"autoHealPip", "autoHealPipConflicts"}

\* the rounds of the for loop
MaxRounds == 6

Step(cmd, args, round) == [cmd |-> cmd, args |-> args, round |-> round]

\* the canned recipes
CompatibilityProfile(round) ==
  <<Step("install", <<"scipy~=1.15.3", "pillow<12", "rembg==2.0.69", "onnxruntime">>, round),
    Step("install", <<"--no-deps", "gradio==5.35.0", "shaderflow==0.9.1">>, round)>>
TyperProfile(round) ==
  <<Step("install", <<"typer==0.15.4", "typer-slim==0.15.4", "click<8.2,>=8.0.0">>, round)>>
FastapiSSEProfile(fn, round) ==
  IF fn = "autoHealPip"
  THEN <<Step("install", <<"sse-starlette<3.0", "starlette>=0.40.0,<0.47.0">>, round)>>
  ELSE <<Step("install", <<"starlette>=0.40.0,<0.47.0", "sse-starlette<3.0">>, round)>>

\* the branch of the loop body taken for the current output
Branch(fn, out, compatibilityApplied) ==
  IF fn = "autoHealPip"
  THEN IF /\ Includes(out, "fastapi")
          /\ Includes(out, "has requirement starlette<0.47.0,>=0.40.0")
          /\ Includes(out, "sse-starlette")
          /\ Includes(out, "has requirement starlette>=0.49.1")
       THEN "fastapi"
       ELSE IF \/ Includes(out, "shaderflow") \/ Includes(out, "gradio")
               \/ Includes(out, "depthflow") \/ Includes(out, "rembg")
       THEN "compatibility"
       ELSE "specs"
  ELSE LET parsed == parsePipConflicts(out)
       IN IF /\ \/ parsed.hasShaderflowScipyConflict \/ parsed.hasGradioPillowConflict
                \/ parsed.hasDepthflowMissingDeps \/ parsed.hasRembgStrictPins
             /\ ~compatibilityApplied
          THEN "compatibility"
          ELSE IF \/ Includes(out, "broken-source") /\ Includes(out, "typer~=0.15.4")
                  \/ Includes(out, "typer-slim") /\ Includes(out, "typer>=0.24.0")
          THEN "typer"
          ELSE IF parsed.hasFastapiStarletteConflict /\ parsed.hasSSEStarletteConflict
          THEN "fastapi"
          ELSE "specs"

\* faulty variant: no spec set counts as seen
seenHas_never(seen, key) == FALSE

\* seen.has(key)
seenHas(seen, key) == key \in seen

\* whether the loop body ends the loop before running anything
Breaks(fn, out, compatibilityApplied, seen) ==
  /\ Branch(fn, out, compatibilityApplied) = "specs"
  /\ LET specs == extractPipRequiredSpecs(out)
     IN specs = <<>> \/ seenHas(seen, specKey(specs))

InitHeal ==
  /\ disk = NoFile
  /\ snaps = <<>>
  /\ venv = TRUE
  /\ env = BaseEnv
  /\ pc = "autoHeal"
  /\ req \in {[op |-> fn, current |-> out, round |-> 1, seen |-> {},
               compatibilityApplied |-> FALSE, extracted |-> <<>>] :
                fn \in Healers, out \in BrokenOutputs}
  /\ resp = NoResp
  /\ nextId = 1
  /\ nreq = 0
  /\ before = NoFile
  /\ ran = <<>>
  /\ tier = ""
  /\ ServersIdle

\* one pass of the loop body that runs a recipe, with the pip check after it
HealRound ==
  /\ pc = "autoHeal"
  /\ req.round <= MaxRounds
  /\ ~Breaks(req.op, req.current, req.compatibilityApplied, req.seen)
  /\ LET branch == Branch(req.op, req.current, req.compatibilityApplied)
         specs == extractPipRequiredSpecs(req.current)
         recipe ==
           IF branch = "compatibility" THEN CompatibilityProfile(req.round)
           ELSE IF branch = "typer" THEN TyperProfile(req.round)
           ELSE IF branch = "fastapi" THEN FastapiSSEProfile(req.op, req.round)
           ELSE [i \in 1..Len(specs) |-> Step("install", <<specs[i]>>, req.round)]
         looked == IF branch = "specs"
                   THEN Append(req.extracted, [specs |-> specs, at |-> Len(ran)])
                   ELSE req.extracted
     IN \E check \in CheckOutputs :
          LET steps == ran \o recipe \o <<Step("check", <<check>>, req.round)>>
          IN /\ ran' = steps
             /\ IF check.ok
                THEN /\ pc' = "done"
                     /\ req' = NoReq
                     /\ resp' = [op |-> req.op, finalCheck |-> check, steps |-> steps,
                                 extracted |-> looked]
                ELSE /\ pc' = "autoHeal"
                     /\ req' = [req EXCEPT
                                  !.current = check,
                                  !.round = @ + 1,
                                  !.seen = IF branch = "specs"
                                           THEN @ \cup {specKey(specs)} ELSE @,
                                  !.compatibilityApplied =
                                     @ \/ (branch = "compatibility"
                                           /\ req.op = "autoHealPipConflicts"),
                                  !.extracted = looked]
                     /\ UNCHANGED resp
  /\ UNCHANGED <<disk, snaps, venv, env, nextId, nreq, before>>
  /\ UNCHANGED rest

\* the loop ends (break, or the rounds are used up); the final pip check
HealEnd ==
  /\ pc = "autoHeal"
  /\ \/ req.round > MaxRounds
     \/ Breaks(req.op, req.current, req.compatibilityApplied, req.seen)
  /\ LET looked == IF req.round <= MaxRounds
                   THEN Append(req.extracted,
                               [specs |-> extractPipRequiredSpecs(req.current),
                                at |-> Len(ran)])
                   ELSE req.extracted
     IN \E check \in CheckOutputs :
          LET steps == Append(ran, Step("final-check", <<check>>, req.round))
          IN /\ ran' = steps
             /\ pc' = "done"
             /\ req' = NoReq
             /\ resp' = [op |-> req.op, finalCheck |-> check, steps |-> steps,
                         extracted |-> looked]
  /\ UNCHANGED <<disk, snaps, venv, env, nextId, nreq, before>>
  /\ UNCHANGED rest

NextHeal ==
  \/ HealRound
  \/ HealEnd

SpecHeal == InitHeal /\ [][NextHeal]_vars

\* ------------------------------------------------------------- fix pipeline
\* readRequirementNames: the lowercased names of one requirement file, none
\* when the file does not exist
readRequirementNames(file) ==
  IF file = Unset THEN {} ELSE {toLowerCase(name) : name \in file[1]}

\* the names the prune loop never uninstalls
protectedPkgs ==
  {"pip", "setuptools", "wheel", "torch", "torchvision", "torchaudio",
   "comfyui-manager", "comfyui_frontend_package"}
  \cup readRequirementNames(Some(reqFiles.core))
  \cup readRequirementNames(Some(reqFiles.mgr))
  \cup readRequirementNames(reqFiles.compat)

\* a pip check line about an installed distribution; pip prints the
\* distribution's normalized name
ParentLine(name) == name \o " 1.0 has requirement x>=2, but you have x 1.0."

\* the parent one line names, "" when the line matches none of the patterns
ConflictParent(line) ==
  LET sp == IndexOf(line, " ")
  IN IF /\ sp > 1
        /\ \/ Contains(line, " has requirement ")
           \/ Contains(line, " requires ") /\ Contains(line, ", but you have ")
           \/ Contains(line, " is not supported on this platform")
     THEN toLowerCase(SubSeq(line, 1, sp - 1))
     ELSE ""

\* parseConflictParents
parseConflictParents(out) ==
  Distinct(SelectSeq([i \in 1..Len(out.lines) |-> ConflictParent(out.lines[i])],
                     LAMBDA name : name # ""))

\* faulty variant: every conflict parent is removable
removable_all(parents) == parents

\* conflictParents.filter((pkg) => !protectedPkgs.has(pkg))
removable(parents) == SelectSeq(parents, LAMBDA pkg : pkg \notin protectedPkgs)

\* the issues the environment pipeline is run for
EnvIssues ==
  {"pip_check_failed", "pip_log_issue", "manager_import_runtime_failed",
   "manager_pkg_missing"}

\* the requirement files of the backend directory
RequirementFiles ==
  {[core |-> core, mgr |-> {"Pillow"}, compat |-> compat] :
     core \in {{"torch"}, {"torch", "huggingface_hub"}},
     compat \in {Unset, Some({"numpy"})}}

\* what pip check prints while the fix runs
FixCheckOutputs ==
  {CheckOk} \cup
  {Broken([i \in 1..Len(names) |-> ParentLine(names[i])]) :
     names \in {<<"pillow", "depthflow">>, <<"pillow">>,
                <<"huggingface-hub", "comfyui-frontend-package">>}}

\* the prune rounds
MaxPruneRounds == 6

FixStep(fn, cmd, args, round) == [fn |-> fn, cmd |-> cmd, args |-> args, round |-> round]

\* the three baseline installs
BaselineInstalls(round) ==
  <<FixStep("enforceCompatibleEnvironment", "install", <<"-r", "requirements.txt">>, round),
    FixStep("enforceCompatibleEnvironment", "install", <<"-r", "manager_requirements.txt">>, round)>>
  \o (IF reqFiles.compat # Unset
      THEN <<FixStep("enforceCompatibleEnvironment", "install",
                     <<"-r", "modusnap_compatible_requirements.txt">>, round)>>
      ELSE <<>>)

InitFix ==
  /\ disk = NoFile
  /\ snaps = <<>>
  /\ venv = TRUE
  /\ env = BaseEnv
  /\ pc = "fix"
  /\ req \in {[op |-> "fix", issueId |-> id] : id \in EnvIssues}
  /\ resp = NoResp
  /\ nextId = 1
  /\ nreq = 0
  /\ before = NoFile
  /\ ran = <<>>
  /\ tier = ""
  /\ thread = [s \in Servers |-> NoHandler]
  /\ inbox = [s \in Servers |-> "none"]
  /\ PageClosed
  /\ backend = TRUE
  /\ reqFiles \in RequirementFiles
  /\ cache = NoCache
  /\ now = 0
  /\ SetsIdle

\* the fix response; restart is decided after the await on isBackendUp
FixResponse(ok, steps, removed) ==
  [op |-> "fix", ok |-> ok, steps |-> steps, removedConflictingPackages |-> removed]

\* POST for an environment issue up to the first pip check of
\* enforceCompatibleEnvironment
FixInstalls ==
  /\ pc = "fix"
  /\ req.issueId \in EnvIssues
  /\ \E check \in FixCheckOutputs :
       LET steps == BaselineInstalls(0)
                    \o <<FixStep("enforceCompatibleEnvironment", "check", <<check>>, 0)>>
       IN /\ ran' = steps
          /\ IF check.ok
             THEN /\ pc' = "restart"
                  /\ req' = [op |-> "fix", issueId |-> req.issueId, ok |-> TRUE,
                             removed |-> <<>>]
             ELSE /\ pc' = "prune"
                  /\ req' = [op |-> "fix", issueId |-> req.issueId, finalCheck |-> check,
                             round |-> 1, removed |-> <<>>]
  /\ UNCHANGED <<disk, snaps, venv, env, resp, nextId, nreq, before>>
  /\ UNCHANGED rest

\* one round of the prune loop
PruneRound ==
  /\ pc = "prune"
  /\ req.round <= MaxPruneRounds
  /\ LET gone == removable(parseConflictParents(req.finalCheck))
     IN /\ gone # <<>>
        /\ \E check \in FixCheckOutputs :
             /\ ran' = ran
                  \o <<FixStep("enforceCompatibleEnvironment", "uninstall", gone, req.round)>>
                  \o BaselineInstalls(req.round)
                  \o <<FixStep("enforceCompatibleEnvironment", "check", <<check>>, req.round)>>
             /\ IF check.ok
                THEN /\ pc' = "restart"
                     /\ req' = [op |-> "fix", issueId |-> req.issueId, ok |-> TRUE,
                                removed |-> SortStrings(Distinct(req.removed \o gone))]
                ELSE /\ pc' = "prune"
                     /\ req' = [req EXCEPT !.finalCheck = check,
                                           !.round = @ + 1,
                                           !.removed = Distinct(@ \o gone)]
  /\ UNCHANGED <<disk, snaps, venv, env, resp, nextId, nreq, before>>
  /\ UNCHANGED rest

\* the prune loop ends with the conflicts left; the response
PruneEnd ==
  /\ pc = "prune"
  /\ \/ req.round > MaxPruneRounds
     \/ removable(parseConflictParents(req.finalCheck)) = <<>>
  /\ pc' = "done"
  /\ resp' = FixResponse(FALSE, ran, SortStrings(req.removed))
  /\ req' = NoReq
  /\ UNCHANGED <<disk, snaps, venv, env, nextId, nreq, before, ran>>
  /\ UNCHANGED rest

\* pip check passed: isBackendUp has answered, the restart (if the backend was
\* down) is requested and the response is sent
FixRestart(up) ==
  /\ pc = "restart"
  /\ pc' = "done"
  /\ resp' = FixResponse(TRUE, ran, req.removed)
  /\ ran' = IF up THEN ran
            ELSE Append(ran, FixStep("restartBackendAfterFix", "restart", <<>>, 0))
  /\ req' = NoReq
  /\ UNCHANGED <<disk, snaps, venv, env, nextId, nreq, before>>
  /\ UNCHANGED rest

NextFix ==
  \/ FixInstalls
  \/ PruneRound
  \/ PruneEnd
  \/ \E up \in BOOLEAN : FixRestart(up)

SpecFix == InitFix /\ [][NextFix]_vars

\* --------------------------------------------------- dependency reconciler
\* text.split(sep) for a one-character separator
RECURSIVE Split(_, _)
Split(text, sep) ==
  LET at == IndexOf(text, sep)
  IN IF at = 0 THEN <<text>>
     ELSE <<SubSeq(text, 1, at - 1)>> \o Split(SubSeq(text, at + 1, Len(text)), sep)

Elements(s) == {s[i] : i \in 1..Len(s)}

\* the sequences that list the elements of a set once each
Orders(set) ==
  {s \in [1..Cardinality(set) -> set] : \A i, j \in 1..Cardinality(set) : s[i] = s[j] => i = j}

\* Version(text).release for one-digit components
Release(text) ==
  LET parts == Split(text, ".")
  IN [i \in 1..Len(parts) |-> IndexOf("0123456789", parts[i]) - 1]

\* the order of versions: "2" and "2.0" are the same version
VersionKey(text) ==
  LET release == Release(text)
  IN 10 * release[1] + (IF Len(release) > 1 THEN release[2] ELSE 0)

\* _compatible_upper_for
compatible_upper_for(text) ==
  LET release == Release(text)
  IN IF Len(release) <= 1 THEN ToString(release[1] + 1)
     ELSE Join([i \in 1..(Len(release) - 1) |->
                  ToString(IF i = Len(release) - 1 THEN release[i] + 1 ELSE release[i])], ".")

\* one clause of a specifier: its operator and version
Specifier(part) ==
  IF Len(part) > 2 /\ SubSeq(part, 1, 2) \in {"==", "!=", ">=", "<=", "~="}
  THEN [operator |-> SubSeq(part, 1, 2), version |-> SubSeq(part, 3, Len(part))]
  ELSE [operator |-> SubSeq(part, 1, 1), version |-> SubSeq(part, 2, Len(part))]

\* SpecifierSet(spec_text): a set of clauses
SpecifierSet(spec_text) == {Specifier(part) : part \in Elements(Split(spec_text, ","))}

\* whether a final release with the given key satisfies a clause
Admits(sp, key) ==
  LET v == VersionKey(sp.version)
  IN CASE sp.operator = "==" -> key = v
       [] sp.operator = "!=" -> key # v
       [] sp.operator = ">=" -> key >= v
       [] sp.operator = ">" -> key > v
       [] sp.operator = "<=" -> key <= v
       [] sp.operator = "<" -> key < v
       [] sp.operator = "~=" -> key >= v /\ key < VersionKey(compatible_upper_for(sp.version))

\* satisfies(version, spec)
satisfies(version, spec) == \A sp \in SpecifierSet(spec) : Admits(sp, VersionKey(version))

\* exact_versions
exact_versions(spec) ==
  LET parts == Split(spec, ",")
      pins == SelectSeq(parts, LAMBDA part : Len(part) > 2 /\ SubSeq(part, 1, 2) = "==")
  IN [i \in 1..Len(pins) |-> SubSeq(pins[i], 3, Len(pins[i]))]

\* the orders in which the clauses of the specs can be visited: the specs in
\* the given order, the clauses of one spec in the order its set iterates
RECURSIVE Iterations(_)
Iterations(specs) ==
  IF specs = <<>> THEN {<<>>}
  ELSE {first \o others : first \in Orders(SpecifierSet(Head(specs))),
                          others \in Iterations(Tail(specs))}

\* the locals of specifiers_intersection; "" stands for None
NoBounds ==
  [lower |-> "", lower_inclusive |-> TRUE, upper |-> "", upper_inclusive |-> TRUE,
   exact |-> "", not_equals |-> {}, reason |-> ""]

\* the upper bound after a "~=" clause whose upper bound is up
UpperFromCompatible(st, up) ==
  IF \/ st.upper = ""
     \/ VersionKey(up) < VersionKey(st.upper)
     \/ VersionKey(up) = VersionKey(st.upper) /\ ~st.upper_inclusive
  THEN [st EXCEPT !.upper = up, !.upper_inclusive = FALSE]
  ELSE st

\* the body of the loop over the clauses
Visit(st, sp) ==
  LET v == sp.version
      k == VersionKey(v)
  IN CASE sp.operator = "==" ->
            IF st.exact = "" THEN [st EXCEPT !.exact = v]
            ELSE IF VersionKey(st.exact) # k
            THEN [st EXCEPT !.reason = "multiple exact pins: " \o st.exact \o ", " \o v]
            ELSE st
       [] sp.operator = "!=" ->
            IF \E n \in st.not_equals : VersionKey(n) = k THEN st
            ELSE [st EXCEPT !.not_equals = @ \cup {v}]
       [] sp.operator \in {">", ">="} ->
            IF \/ st.lower = ""
               \/ k > VersionKey(st.lower)
               \/ k = VersionKey(st.lower) /\ sp.operator = ">"
            THEN [st EXCEPT !.lower = v, !.lower_inclusive = (sp.operator = ">=")]
            ELSE st
       [] sp.operator \in {"<", "<="} ->
            IF \/ st.upper = ""
               \/ k < VersionKey(st.upper)
               \/ k = VersionKey(st.upper) /\ sp.operator = "<"
            THEN [st EXCEPT !.upper = v, !.upper_inclusive = (sp.operator = "<=")]
            ELSE st
       [] sp.operator = "~=" ->
            UpperFromCompatible(
              IF st.lower = "" \/ k > VersionKey(st.lower)
              THEN [st EXCEPT !.lower = v, !.lower_inclusive = TRUE]
              ELSE st,
              compatible_upper_for(v))

\* the loop over the clauses; it returns at the second exact pin
RECURSIVE VisitAll(_, _)
VisitAll(st, clauses) ==
  IF clauses = <<>> \/ st.reason # "" THEN st
  ELSE VisitAll(Visit(st, Head(clauses)), Tail(clauses))

\* sorted(not_equals)
SortedVersions(set) ==
  SortSeq(CHOOSE s \in Orders(set) : TRUE, LAMBDA a, b : VersionKey(a) < VersionKey(b))

NotOk(reason) == [ok |-> FALSE, reason |-> reason, normalized |-> ""]

\* the end of specifiers_intersection: the checks on the bounds the loop left
\* and the normalized specifier
Normalized(st, lo, up, ex, nots) ==
  LET parts ==
        (IF st.lower # "" THEN <<(IF st.lower_inclusive THEN ">=" ELSE ">") \o st.lower>>
         ELSE <<>>)
        \o (IF st.upper # "" THEN <<(IF st.upper_inclusive THEN "<=" ELSE "<") \o st.upper>>
            ELSE <<>>)
        \o [i \in 1..Len(nots) |-> "!=" \o nots[i]]
      excluded(key) == \E i \in 1..Len(nots) : VersionKey(nots[i]) = key
  IN IF st.reason # "" THEN NotOk(st.reason)
     ELSE IF st.exact # ""
     THEN IF excluded(ex)
          THEN NotOk("exact pin " \o st.exact \o " is explicitly excluded")
          ELSE IF st.lower # "" /\ (ex < lo \/ (ex = lo /\ ~st.lower_inclusive))
          THEN NotOk("exact pin " \o st.exact \o " is below lower bound")
          ELSE IF st.upper # "" /\ (ex > up \/ (ex = up /\ ~st.upper_inclusive))
          THEN NotOk("exact pin " \o st.exact \o " is above upper bound")
          ELSE [ok |-> TRUE, reason |-> "", normalized |-> "==" \o st.exact]
     ELSE IF st.lower # "" /\ st.upper # "" /\ lo > up
     THEN NotOk("lower bound " \o st.lower \o " is greater than upper bound " \o st.upper)
     ELSE IF /\ st.lower # "" /\ st.upper # "" /\ lo = up
             /\ (~st.lower_inclusive \/ ~st.upper_inclusive)
     THEN NotOk("bounds collapse to excluded single version " \o st.lower)
     ELSE IF st.lower # "" /\ st.upper # "" /\ lo = up /\ excluded(lo)
     THEN NotOk("only allowed version " \o st.lower \o " is excluded")
     ELSE [ok |-> TRUE, reason |-> "", normalized |-> Join(parts, ",")]

\* the bounds the loop left, with their keys and the sorted exclusions
Checked(st) ==
  Normalized(st, VersionKey(st.lower), VersionKey(st.upper), VersionKey(st.exact),
             SortedVersions(st.not_equals))

\* specifiers_intersection, the clauses visited in the given order
specifiers_intersection(clauses) == Checked(VisitAll(NoBounds, clauses))

\* the sequences of a sequence, concatenated
RECURSIVE Concat(_)
Concat(seqs) == IF seqs = <<>> THEN <<>> ELSE Head(seqs) \o Concat(Tail(seqs))

\* the exact pins of the specs that some spec does not admit
pin_conflicts(specs) ==
  LET exacts == SortStrings(Distinct(
                  Concat([i \in 1..Len(specs) |-> exact_versions(specs[i])])))
  IN Concat([e \in 1..Len(exacts) |->
               Concat([s \in 1..Len(specs) |->
                         IF satisfies(exacts[e], specs[s]) THEN <<>>
                         ELSE <<"exact pin " \o exacts[e] \o " not compatible with spec '"
                                \o specs[s] \o "'">>])])

\* what the loop over the packages adds for a package with the given sorted
\* specs, intersection and reasons
Added(pkg, specs, intersect, reasons) ==
  IF specs = <<>>
  THEN [compatible |-> <<pkg>>, conflicts |-> <<>>, incompatible |-> <<>>]
  ELSE IF ~intersect.ok
  THEN [compatible |-> <<>>,
        conflicts |-> <<[package |-> pkg, specs |-> specs, reasons |-> reasons]>>,
        incompatible |-> <<pkg \o " :: " \o Join(specs, " | ") \o " :: "
                           \o Join(reasons, " | ")>>]
  ELSE [compatible |-> <<pkg \o intersect.normalized>>, conflicts |-> <<>>,
        incompatible |-> <<>>]

\* the reasons of a conflict: sorted(set([reason] + pin_conflicts))
Reasons(intersect, specs) ==
  SortStrings(Distinct(<<intersect.reason>> \o pin_conflicts(specs)))

AuditSpecs(pkg, specs, intersect) == Added(pkg, specs, intersect, Reasons(intersect, specs))

\* one pass of the loop over the packages: what it adds for a package
AuditPackage(pkg, specSet, clauses) ==
  AuditSpecs(pkg, SortStrings(CHOOSE s \in Orders(specSet) : TRUE),
             specifiers_intersection(clauses))

\* the packages of the tree and the specifiers a requirement line can carry
Packages == {"bar", "foo"}
SpecOperators == {"==", "!=", ">=", ">", "<=", "<", "~="}
SpecVersions == {"1.0", "1.5", "2.0"}
SpecPool ==
  {op \o v : op \in SpecOperators, v \in SpecVersions}
  \cup {"<=2.0,~=1.5", "==1.0,==2.0", "<2.0,>=1.0", "!=1.5,>=1.0"}

\* the specifiers collected per package (pkg_map, without the file names)
Trees ==
  {[foo |-> foo, bar |-> bar] :
     foo \in {{first, second} : first, second \in SpecPool},
     bar \in {{}, {"==1.0,==2.0"}, {"<=2.0,~=1.5"}}}

\* the runs of the reconciler on one tree
MaxAudits == 2

InitAudit ==
  /\ disk = NoFile
  /\ snaps = <<>>
  /\ venv = TRUE
  /\ env = BaseEnv
  /\ pc = "audit"
  /\ req \in {[op |-> "audit", tree |-> tree] : tree \in Trees}
  /\ resp = NoResp
  /\ nextId = 1
  /\ nreq = 0
  /\ before = NoFile
  /\ ran = <<>>
  /\ tier = ""
  /\ thread = [s \in Servers |-> NoHandler]
  /\ inbox = [s \in Servers |-> "none"]
  /\ PageClosed
  /\ HostIdle

\* what one run writes, given what the loop added for each package
Written(each, time) ==
  LET compatible_requirements == Concat([i \in 1..Len(each) |-> each[i].compatible])
      conflicts == Concat([i \in 1..Len(each) |-> each[i].conflicts])
      incompatible_lines == Concat([i \in 1..Len(each) |-> each[i].incompatible])
  IN [cmd |-> "audit",
      compatible |-> Join(SortStrings(Distinct(compatible_requirements)), "\n") \o "\n",
      incompatible |-> Join(incompatible_lines, "\n")
                       \o (IF incompatible_lines # <<>> THEN "\n" ELSE ""),
      report |-> [ok |-> TRUE, generatedAt |-> time, packagesScanned |-> Len(each),
                  compatibleRequirementCount |-> Len(compatible_requirements),
                  conflictCount |-> Len(conflicts), conflicts |-> conflicts]]

\* the loop over the sorted packages
AuditEach(pkgs, tree, iter) ==
  [i \in 1..Len(pkgs) |-> AuditPackage(pkgs[i], tree[pkgs[i]], iter[pkgs[i]])]

\* what one run writes, the clauses of each package visited in the given order
AuditOutput(tree, iter, time) ==
  Written(AuditEach(SortStrings(CHOOSE s \in Orders(Packages) : TRUE), tree, iter), time)

\* the orders in which one run can visit the clauses of a package's specifiers
IterationsOf(specSet) == Iterations(SortStrings(CHOOSE s \in Orders(specSet) : TRUE))

\* one run of the dependency audit script
RunDependencyAudit ==
  /\ pc = "audit"
  /\ Len(ran) < MaxAudits
  /\ \E fooClauses \in IterationsOf(req.tree.foo), barClauses \in IterationsOf(req.tree.bar) :
       ran' = Append(ran, AuditOutput(req.tree, [foo |-> fooClauses, bar |-> barClauses], now))
  /\ now' = now + 1
  /\ UNCHANGED <<disk, snaps, venv, env, pc, req, resp, nextId, nreq, before>>
  /\ UNCHANGED <<tier, thread, inbox, sessionVars, backend, reqFiles, cache, sets, view, engine>>

NextAudit == RunDependencyAudit

SpecAudit == InitAudit /\ [][NextAudit]_vars

\* ------------------------------------------------------ compatibility audit
\* getTextBlob: the item's fields that are set, joined and lowercased
getTextBlob(item) ==
  toLowerCase(Join(SelectSeq(<<item.id, item.title, item.description>>,
                             LAMBDA field : field # ""), " "))

\* the decision runCatalogAudit gives one catalog item
catalogDecision(item, h) ==
  LET text == getTextBlob(item)
      cuda == IF ~h.hasNvidia /\ cudaOnlyMarkers(text) THEN "blocked"
              ELSE IF ~h.hasNvidia /\ cudaMarkers(text) THEN "warning"
              ELSE "installable"
      rocm == IF ~h.hasRocm /\ rocmOnlyMarkers(text) THEN "blocked"
              ELSE IF ~h.hasRocm /\ rocmMarkers(text) /\ cuda # "blocked" THEN "warning"
              ELSE cuda
  IN IF h.isDarwinArm64 /\ darwinMarkers(text) /\ rocm # "blocked" THEN "warning"
     ELSE rocm

\* words of catalog descriptions
Phrases ==
  {"cuda-only", "requires cuda", "nvidia-only", "requires nvidia", "tensorrt required",
   "triton required", "rocm-only", "requires rocm", "hip required", "cuda", "nvidia",
   "tensorrt", "cu12", "cu11", "rocm", "hip", "xformers", "triton", "flash-attn",
   "bitsandbytes", "sampler", "Requires CUDA"}

\* catalog items
AuditItems ==
  {[id |-> id, title |-> "Pack", description |-> first \o second] :
     id \in {"", "pack-cu12"},
     first \in Phrases,
     second \in {"", " with xformers", " or ROCm-only"}}

InitAssess ==
  /\ disk = NoFile
  /\ snaps = <<>>
  /\ venv = TRUE
  /\ env = BaseEnv
  /\ pc = "assess"
  /\ req \in {[op |-> "assess", item |-> item] : item \in AuditItems}
  /\ resp = NoResp
  /\ nextId = 1
  /\ nreq = 0
  /\ before = NoFile
  /\ ran = <<>>
  /\ tier = ""
  /\ thread = [s \in Servers |-> NoHandler]
  /\ inbox = [s \in Servers |-> "none"]
  /\ rows = <<>>
  /\ hw \in AllProfiles
  /\ session = NoSession
  /\ cancel = FALSE
  /\ spc = "none"
  /\ loc = NoLocals
  /\ log = <<>>
  /\ nrun = 0
  /\ HostIdle

\* the preflight route assesses the item
AssessItem ==
  /\ pc = "assess"
  /\ resp = NoResp
  /\ resp' = [op |-> "preflight", text |-> getTextBlob(req.item),
              decision |-> assessItem(getTextBlob(req.item), hw)]
  /\ pc' = "audit"
  /\ UNCHANGED <<disk, snaps, venv, env, req, nextId, nreq, before, ran>>
  /\ UNCHANGED rest

\* the compatibility-set route audits the item
CatalogAudit ==
  /\ pc \in {"assess", "audit"}
  /\ ran = <<>>
  /\ ran' = <<[cmd |-> "catalog-audit", text |-> getTextBlob(req.item),
               decision |-> catalogDecision(req.item, hw)]>>
  /\ UNCHANGED <<disk, snaps, venv, env, pc, req, resp, nextId, nreq, before>>
  /\ UNCHANGED rest

NextAssess ==
  \/ AssessItem
  \/ CatalogAudit

SpecAssess == InitAssess /\ [][NextAssess]_vars

\* ------------------------------------------------------------ status route
\* the time to live of a slot's entry, in seconds
managerRuntimeTtl(deep) == IF deep THEN 5 ELSE 20
logInfoTtl(deep) == IF deep THEN 8 ELSE 30
hardwareRuntimeTtl(deep) == IF deep THEN 8 ELSE 30
Ttl(slot, deep) ==
  CASE slot = "managerRuntime" -> managerRuntimeTtl(deep)
    [] slot = "logInfo" -> logInfoTtl(deep)
    [] slot = "hardwareRuntime" -> hardwareRuntimeTtl(deep)

\* faulty variant: an entry is never taken as live
Live_never(slot) == FALSE

\* existing && existing.expiresAt > now
Live(slot) == cache[slot] # Unset /\ cache[slot][1].expiresAt > now

\* withCache: the value returned, the slot's entry afterwards, and whether
\* compute ran
withCache(slot, ttl, computed) ==
  IF Live(slot)
  THEN [value |-> cache[slot][1].value, entry |-> cache[slot], computed |-> FALSE]
  ELSE [value |-> computed, entry |-> Some([value |-> computed, expiresAt |-> now + ttl]),
        computed |-> TRUE]

\* what the subprocesses and the file system answer to checkVenvAndManager
ManagerFacts ==
  {[managerDir |-> dir, specFound |-> found, importStatus |-> import, pipStatus |-> pip] :
     dir \in BOOLEAN, found \in BOOLEAN, import \in {0, 1}, pip \in {0, 1, -1}}

\* nothing is asked while the slot's entry is live
NoFacts == [managerDir |-> FALSE, specFound |-> FALSE, importStatus |-> 1, pipStatus |-> 1]

\* checkVenvAndManager
checkVenvAndManager(facts, deepDiagnostics) ==
  IF ~venv
  THEN [venvFound |-> FALSE, managerInstalled |-> FALSE, managerImportRuntimeOk |-> FALSE,
        pipCheckPassed |-> FALSE, pipCheckOutput |-> "venv missing"]
  ELSE IF ~deepDiagnostics
  THEN [venvFound |-> TRUE, managerInstalled |-> facts.managerDir,
        managerImportRuntimeOk |-> facts.managerDir,
        pipCheckPassed |-> TRUE, pipCheckOutput |-> "skipped (fast status mode)"]
  ELSE [venvFound |-> TRUE, managerInstalled |-> facts.specFound,
        managerImportRuntimeOk |-> (facts.importStatus = 0),
        pipCheckPassed |-> (facts.pipStatus = 0), pipCheckOutput |-> "(pip check output)"]

\* getRecentLogErrors: what the tail of the log shows
LogInfos ==
  {[sslIssue |-> FALSE, pipIssue |-> FALSE, rembgIssue |-> FALSE],
   [sslIssue |-> FALSE, pipIssue |-> TRUE, rembgIssue |-> FALSE],
   [sslIssue |-> TRUE, pipIssue |-> TRUE, rembgIssue |-> TRUE]}

NoLog == [sslIssue |-> FALSE, pipIssue |-> FALSE, rembgIssue |-> FALSE]

\* getHardwareRuntimeInfo: the torch probe runs in deep mode only
getHardwareRuntimeInfo(includeTorchProbe) == [torchProbed |-> includeTorchProbe]

\* the first reachable manager endpoint, "" when none answers
ManagerEndpoints == {"", "/v2/manager/version", "/v2/manager/queue/status"}

\* faulty variant: the log alone raises pip_log_issue
pipLogIssue_logOnly(logInfo, managerRuntime) == logInfo.pipIssue

\* logInfo.pipIssue && !managerRuntime.pipCheckPassed
pipLogIssue(logInfo, managerRuntime) == logInfo.pipIssue /\ ~managerRuntime.pipCheckPassed

When(cond, id) == IF cond THEN <<id>> ELSE <<>>

\* the ids of the issues GET pushes, in order
Issues(backendUp, managerEndpoint, managerRuntime, logInfo) ==
  LET managerDetectedByRoutes == managerEndpoint # ""
  IN When(~backendUp, "backend_down")
     \o When(backendUp /\ managerEndpoint = "", "manager_routes_missing")
     \o (IF ~managerRuntime.venvFound THEN <<"venv_missing">>
         ELSE When(~managerRuntime.managerInstalled /\ ~managerDetectedByRoutes,
                   "manager_pkg_missing")
              \o When(/\ managerRuntime.managerInstalled
                      /\ ~managerRuntime.managerImportRuntimeOk
                      /\ ~managerDetectedByRoutes, "manager_import_runtime_failed")
              \o When(~managerRuntime.pipCheckPassed, "pip_check_failed"))
     \o When(logInfo.sslIssue, "ssl_cert_issue")
     \o When(pipLogIssue(logInfo, managerRuntime), "pip_log_issue")
     \o When(logInfo.rembgIssue, "rembg_onnx_missing")

\* the clock's steps between requests and its last value
ClockSteps == {7, 14}
MaxClock == 21

InitStatus ==
  /\ disk = NoFile
  /\ snaps = <<>>
  /\ venv \in BOOLEAN
  /\ env = BaseEnv
  /\ pc = "idle"
  /\ req = NoReq
  /\ resp = NoResp
  /\ nextId = 1
  /\ nreq = 0
  /\ before = NoFile
  /\ ran = <<>>
  /\ tier = ""
  /\ thread = [s \in Servers |-> NoHandler]
  /\ inbox = [s \in Servers |-> "none"]
  /\ PageClosed
  /\ HostIdle

\* GET /api/manager/status
StatusGet(deep) ==
  /\ pc = "idle"
  /\ \E backendUp \in BOOLEAN,
        facts \in (IF Live("managerRuntime") THEN {NoFacts} ELSE ManagerFacts),
        logSeen \in (IF Live("logInfo") THEN {NoLog} ELSE LogInfos) :
     \E managerEndpoint \in (IF backendUp THEN ManagerEndpoints ELSE {""}) :
       LET managerRuntime == withCache("managerRuntime", managerRuntimeTtl(deep),
                                       checkVenvAndManager(facts, deep))
           logInfo == withCache("logInfo", logInfoTtl(deep), logSeen)
           hardwareInfo == withCache("hardwareRuntime", hardwareRuntimeTtl(deep),
                                     getHardwareRuntimeInfo(deep))
       IN /\ cache' = [managerRuntime |-> managerRuntime.entry, logInfo |-> logInfo.entry,
                       hardwareRuntime |-> hardwareInfo.entry]
          /\ ran' = When(managerRuntime.computed, "managerRuntime")
                    \o When(logInfo.computed, "logInfo")
                    \o When(hardwareInfo.computed, "hardwareRuntime")
          /\ resp' = [op |-> "status", diagnosticsMode |-> IF deep THEN "deep" ELSE "fast",
                      backendUp |-> backendUp, managerEndpoint |-> managerEndpoint,
                      managerRuntime |-> managerRuntime.value, logInfo |-> logInfo.value,
                      hardwareRuntime |-> hardwareInfo.value,
                      issues |-> Issues(backendUp, managerEndpoint, managerRuntime.value,
                                        logInfo.value)]
  /\ UNCHANGED <<disk, snaps, venv, env, pc, req, nextId, nreq, before>>
  /\ UNCHANGED <<tier, thread, inbox, sessionVars, backend, reqFiles, now, sets, view, engine>>

\* time passes between two requests
Tick(step) ==
  /\ pc = "idle"
  /\ now + step <= MaxClock
  /\ now' = now + step
  /\ UNCHANGED <<disk, snaps, venv, env, pc, req, resp, nextId, nreq, before, ran>>
  /\ UNCHANGED <<tier, thread, inbox, sessionVars, backend, reqFiles, cache, sets, view, engine>>

NextStatus ==
  \/ \E deep \in BOOLEAN : StatusGet(deep)
  \/ \E step \in ClockSteps : Tick(step)
  \/ VenvChange

SpecStatus == InitStatus /\ [][NextStatus]_vars

\* ---------------------------------------------------------- backend locator
BACKEND_MARKER_FILES == {"main.py", "requirements.txt"}

\* the candidate directories of discovery, in order, relative to the root
Candidates ==
  <<"../ComfyUI Backend", "./ComfyUI Backend", "../../ComfyUI Backend",
    "./backend-comfyui", "../backend-comfyui", "../../backend-comfyui">>

\* a directory MODUSNAP_BACKEND_DIR can name
EnvDir == "/opt/comfyui"

\* which marker files each directory holds
Layouts ==
  [{EnvDir} \cup {Candidates[i] : i \in 1..Len(Candidates)}
     -> {{}, {"main.py"}, BACKEND_MARKER_FILES}]

\* isValidBackendDir
isValidBackendDir(files, candidate) == BACKEND_MARKER_FILES \subseteq files[candidate]

\* backendNotFound
backendNotFound(checked) ==
  [op |-> "locate", ok |-> FALSE, code |-> "BACKEND_DIR_NOT_FOUND", checked |-> checked]

\* resolveBackendDirResult
resolveBackendDirResult(envDir, files) ==
  IF envDir # ""
  THEN IF isValidBackendDir(files, envDir)
       THEN [op |-> "locate", ok |-> TRUE, backendDir |-> envDir, source |-> "env"]
       ELSE backendNotFound(<<envDir>>)
  ELSE LET valid == SelectSeq(Candidates, LAMBDA candidate : isValidBackendDir(files, candidate))
       IN IF valid # <<>>
          THEN [op |-> "locate", ok |-> TRUE, backendDir |-> valid[1], source |-> "discovery"]
          ELSE backendNotFound(Candidates)

InitLocate ==
  /\ disk = NoFile
  /\ snaps = <<>>
  /\ venv = TRUE
  /\ env = BaseEnv
  /\ pc = "locate"
  /\ req \in {[op |-> "locate", envDir |-> envDir, files |-> files] :
                envDir \in {"", EnvDir}, files \in Layouts}
  /\ resp = NoResp
  /\ nextId = 1
  /\ nreq = 0
  /\ before = NoFile
  /\ ran = <<>>
  /\ tier = ""
  /\ thread = [s \in Servers |-> NoHandler]
  /\ inbox = [s \in Servers |-> "none"]
  /\ PageClosed
  /\ HostIdle

\* a component asks for the backend directory
Locate ==
  /\ pc = "locate"
  /\ pc' = "done"
  /\ resp' = resolveBackendDirResult(req.envDir, req.files)
  /\ UNCHANGED <<disk, snaps, venv, env, req, nextId, nreq, before, ran>>
  /\ UNCHANGED rest

NextLocate == Locate

SpecLocate == InitLocate /\ [][NextLocate]_vars

\* ------------------------------------------- the engine without a backend
\* the manager's engine started where no directory holds the marker files
InitNoBackend ==
  /\ disk = NoFile
  /\ snaps = <<>>
  /\ venv \in BOOLEAN
  /\ env = BaseEnv
  /\ pc = "idle"
  /\ req = NoReq
  /\ resp = NoResp
  /\ nextId = 1
  /\ nreq = 0
  /\ before = NoFile
  /\ ran = <<>>
  /\ tier = ""
  /\ thread = [s \in Servers |-> NoHandler]
  /\ inbox = [s \in Servers |-> "none"]
  /\ PageClosed
  /\ backend = FALSE
  /\ reqFiles = NoReqFiles
  /\ cache = NoCache
  /\ now = 0
  /\ SetsIdle

SpecNoBackend == InitNoBackend /\ [][Next]_vars

\* ------------------------------------------------- compatibility set reuse
\* the texts .torch_profile can hold; Unset when the file is absent
ProfileTexts == {"nvidia:true", "nvidia:false"}

\* readHardwareProfile of the compatibility-set route
readHardwareProfile(file) == IF file = Unset \/ file[1] = "" THEN "unknown" ELSE file[1]

\* getHardwareRuntimeInfo(...).hardwareProfile of the status route; NULL when
\* the file is absent
statusHardwareProfile(file) == IF file = Unset THEN NULL ELSE file[1]

\* 15 * 60 * 1000 ms, in seconds
FifteenMinutes == 900

\* the clock readings of the page under SpecPrepare
PrepareSteps == {450}
MaxPrepareClock == 1450
\* the runs of executeInstallSession under SpecPrepare
MaxPrepares == 2

\* hardwareMatch of prepareCompatibleHardwareSet; "" and NULL are falsy
hardwareMatch(set, diagnostics) ==
  \/ set = Unset
  \/ set[1].hardwareProfile \in {"", NULL}
  \/ diagnostics = Unset
  \/ diagnostics[1].hardwareProfile \in {"", NULL}
  \/ set[1].hardwareProfile = diagnostics[1].hardwareProfile

\* freshEnough of prepareCompatibleHardwareSet
freshEnough(set, time) ==
  /\ set # Unset
  /\ set[1].createdAt > 0
  /\ time - set[1].createdAt < FifteenMinutes

\* whether prepareCompatibleHardwareSet returns the cached set (no forceRefresh)
reusesSet(set, diagnostics, time) ==
  /\ set # Unset
  /\ set[1].pipHealthy
  /\ freshEnough(set, time)
  /\ hardwareMatch(set, diagnostics)

InitPrepare ==
  /\ disk = NoFile
  /\ snaps = <<>>
  /\ venv = TRUE
  /\ env = BaseEnv
  /\ pc = "idle"
  /\ req = NoReq
  /\ resp = NoResp
  /\ nextId = 1
  /\ nreq = 0
  /\ before = NoFile
  /\ ran = <<>>
  /\ tier = ""
  /\ thread = [s \in Servers |-> NoHandler]
  /\ inbox = [s \in Servers |-> "none"]
  /\ PageClosed
  /\ backend = TRUE
  /\ reqFiles = NoReqFiles
  /\ cache = NoCache
  /\ now = 100
  /\ sets \in {[current |-> Unset, history |-> {}, profile |-> file] :
                 file \in {Unset} \cup {Some(text) : text \in ProfileTexts}}
  /\ view = NoView
  /\ engine = EngineDown

\* loadManagerData: the status and compatibility-set requests answer or fail
LoadManagerData(statusOk, setOk) ==
  /\ spc = "none"
  /\ view' = [diagnostics |->
                IF statusOk
                THEN Some([hardwareProfile |-> statusHardwareProfile(sets.profile)])
                ELSE view.diagnostics,
              compatibilitySet |-> IF setOk THEN sets.current ELSE Unset]
  /\ UNCHANGED <<sets, engine, backend, reqFiles, cache, now>>
  /\ UNCHANGED <<disk, snaps, venv, env, pc, req, resp, nextId, nreq, before, ran>>
  /\ UNCHANGED <<tier, thread, inbox, sessionVars>>

\* the installer writes or removes .torch_profile
ProfileWritten(file) ==
  /\ spc = "none"
  /\ file # sets.profile
  /\ sets' = [sets EXCEPT !.profile = file]
  /\ UNCHANGED <<view, engine, backend, reqFiles, cache, now>>
  /\ UNCHANGED <<disk, snaps, venv, env, pc, req, resp, nextId, nreq, before, ran>>
  /\ UNCHANGED <<tier, thread, inbox, sessionVars>>

\* time passes on the page
PageTick(step) ==
  /\ spc = "none"
  /\ now + step <= MaxPrepareClock
  /\ now' = now + step
  /\ UNCHANGED <<sets, view, engine, backend, reqFiles, cache>>
  /\ UNCHANGED <<disk, snaps, venv, env, pc, req, resp, nextId, nreq, before, ran>>
  /\ UNCHANGED <<tier, thread, inbox, sessionVars>>

\* executeInstallSession reaches prepareCompatibleHardwareSet: the cached set
\* is returned, or the prepare request is sent
PrepareCompatibleHardwareSet ==
  /\ spc = "none"
  /\ nrun < MaxPrepares
  /\ nrun' = nrun + 1
  /\ IF reusesSet(view.compatibilitySet, view.diagnostics, now)
     THEN /\ spc' = "snapshot"
          /\ log' = <<Event("reused", <<>>)>>
     ELSE /\ spc' = "prepare"
          /\ log' = <<Event("prepare", <<>>)>>
  /\ UNCHANGED <<rows, hw, session, cancel, loc>>
  /\ UNCHANGED offPage

\* the prepare request answers with the set it saved, or fails
RebuildReply(ok, healthy) ==
  /\ spc = "prepare"
  /\ IF ok
     THEN LET payload == [lockId |-> <<now, readHardwareProfile(sets.profile)>>,
                          createdAt |-> now,
                          hardwareProfile |-> readHardwareProfile(sets.profile),
                          pipHealthy |-> healthy]
          IN /\ sets' = [sets EXCEPT !.current = Some(payload),
                                     !.history = @ \cup {payload.lockId}]
             /\ view' = [view EXCEPT !.compatibilitySet = Some(payload)]
             /\ spc' = "snapshot"
             /\ log' = Append(log, Event("rebuilt", <<>>))
     ELSE /\ spc' = "none"
          /\ log' = log \o Failed("Failed to create compatible hardware set")
          /\ UNCHANGED <<sets, view>>
  /\ UNCHANGED <<rows, hw, session, cancel, loc, nrun>>
  /\ UNCHANGED <<engine, backend, reqFiles, cache, now>>
  /\ UNCHANGED <<disk, snaps, venv, env, pc, req, resp, nextId, nreq, before, ran>>
  /\ UNCHANGED <<tier, thread, inbox>>

\* the snapshot is saved and the first chunk is submitted
SubmitChunk ==
  /\ spc = "snapshot"
  /\ spc' = "none"
  /\ log' = Append(log, Event("batch", <<>>))
  /\ UNCHANGED <<rows, hw, session, cancel, loc, nrun>>
  /\ UNCHANGED offPage

NextPrepare ==
  \/ \E statusOk, setOk \in BOOLEAN : LoadManagerData(statusOk, setOk)
  \/ \E file \in {Unset} \cup {Some(text) : text \in ProfileTexts} : ProfileWritten(file)
  \/ \E step \in PrepareSteps : PageTick(step)
  \/ PrepareCompatibleHardwareSet
  \/ \E ok, healthy \in BOOLEAN : RebuildReply(ok, healthy)
  \/ SubmitChunk

SpecPrepare == InitPrepare /\ [][NextPrepare]_vars

\* ------------------------------------------------------------- batch route
\* the start of text up to the first character of stops
RECURSIVE TakeUntil(_, _)
TakeUntil(text, stops) ==
  IF text = "" \/ SubSeq(text, 1, 1) \in stops THEN ""
  ELSE SubSeq(text, 1, 1) \o TakeUntil(SubSeq(text, 2, Len(text)), stops)

\* normalizeRepoUrl; NULL stands for a value that is not a string
normalizeRepoUrl(raw) ==
  IF raw = NULL THEN NULL
  ELSE IF Trim(raw) = "" THEN NULL
  ELSE Trim(raw)

\* text.match(/\/nodes\/([^/?#]+)/i)?.[1], NULL when there is no match
NodesMatch(text) ==
  LET starts == {i \in 1..Len(text) :
                   /\ i + 7 <= Len(text)
                   /\ toLowerCase(SubSeq(text, i, i + 6)) = "/nodes/"
                   /\ SubSeq(text, i + 7, i + 7) \notin {"/", "?", "#"}}
  IN IF starts = {} THEN NULL
     ELSE LET at == CHOOSE i \in starts : \A j \in starts : i <= j
          IN TakeUntil(SubSeq(text, at + 7, Len(text)), {"/", "?", "#"})

\* new URL(value).pathname for "scheme://host/path?query#hash"; NULL when
\* the constructor throws (no scheme)
Pathname(value) ==
  LET at == IndexOf(value, "://")
  IN IF at <= 1 THEN NULL
     ELSE LET afterHost == SubSeq(value, at + 3 + Len(TakeUntil(SubSeq(value, at + 3, Len(value)),
                                                              {"/", "?", "#"})),
                                  Len(value))
              path == TakeUntil(afterHost, {"?", "#"})
          IN IF path = "" THEN "/" ELSE path

\* parseCnrIdFromReference
parseCnrIdFromReference(reference) ==
  IF reference = NULL THEN NULL
  ELSE IF Trim(reference) = "" THEN NULL
  ELSE LET value == Trim(reference)
       IN IF Pathname(value) # NULL THEN NodesMatch(Pathname(value))
          ELSE NodesMatch(value)

\* a || b on strings and null
OrElse(a, b) == IF a = NULL \/ a = "" THEN b ELSE a

\* files.find((value) => typeof value === 'string')
firstFile(files) == IF files = <<>> THEN NULL ELSE files[1]

Kept(entry) == [items |-> <<entry>>, invalid |-> <<>>]
Dropped(index, reason, entry) ==
  [items |-> <<>>,
   invalid |-> <<[index |-> index, reason |-> reason, title |-> entry.title]>>]

\* the second half of the flatMap callback: the git-clone check
gitCloneItem(normalized, index) ==
  IF toLowerCase(normalized.install_type) = "git-clone"
  THEN LET repository == OrElse(normalizeRepoUrl(normalized.repository),
                                OrElse(normalizeRepoUrl(normalized.reference),
                                       normalizeRepoUrl(firstFile(normalized.files))))
       IN IF repository = NULL THEN Dropped(index, "Missing git repository url", normalized)
          ELSE Kept([normalized EXCEPT !.repository = repository])
  ELSE Kept(normalized)

\* the flatMap callback of the batch route on one entry: what it adds to
\* payloadItems and to invalidItems
payloadItem(entry, index) ==
  IF toLowerCase(entry.install_type) = "cnr"
  THEN LET resolvedId ==
             OrElse(IF entry.id = NULL THEN NULL ELSE Trim(entry.id),
                    parseCnrIdFromReference(entry.reference))
           fallbackRepository ==
             OrElse(normalizeRepoUrl(entry.repository),
                    normalizeRepoUrl(firstFile(entry.files)))
       IN IF resolvedId = NULL
          THEN IF fallbackRepository # NULL
               THEN Kept([entry EXCEPT !.install_type = "git-clone",
                                       !.repository = fallbackRepository,
                                       !.id = NULL])
               ELSE Dropped(index,
                            "Missing CNR package id and no git fallback repository is available",
                            entry)
          ELSE gitCloneItem([entry EXCEPT !.id = resolvedId], index)
  ELSE gitCloneItem(entry, index)

\* sourceItems.flatMap(...) with the invalidItems it collects
RECURSIVE payloadItems(_, _)
payloadItems(sourceItems, index) ==
  IF sourceItems = <<>> THEN [items |-> <<>>, invalid |-> <<>>]
  ELSE LET first == payloadItem(Head(sourceItems), index)
           others == payloadItems(Tail(sourceItems), index + 1)
       IN [items |-> first.items \o others.items, invalid |-> first.invalid \o others.invalid]

\* the catalog entries sent to the route
GitUrl == "https://github.com/a/b"
BatchEntries ==
  {[title |-> "pack", install_type |-> type, id |-> id, reference |-> reference,
    repository |-> repository, files |-> files] :
     type \in {"cnr", "git-clone", "copy"},
     id \in {NULL, " ", "pack"},
     reference \in {NULL, "https://registry.comfy.org/nodes/pack", GitUrl},
     repository \in {NULL, " ", GitUrl \o " "},
     files \in {<<>>, <<GitUrl>>, <<" ", GitUrl>>}}

\* an entry the route takes as it is
PlainEntry ==
  [title |-> "plain", install_type |-> "copy", id |-> "plain", reference |-> NULL,
   repository |-> NULL, files |-> <<>>]

InitBatch ==
  /\ disk = NoFile
  /\ snaps = <<>>
  /\ venv = TRUE
  /\ env = BaseEnv
  /\ pc = "batch"
  /\ req \in {[op |-> "batch", mode |-> "install", items |-> items] :
                items \in {<<entry>> : entry \in BatchEntries}
                          \cup {<<entry, PlainEntry>> : entry \in BatchEntries}}
  /\ resp = NoResp
  /\ nextId = 1
  /\ nreq = 0
  /\ before = NoFile
  /\ ran = <<>>
  /\ tier = ""
  /\ thread = [s \in Servers |-> NoHandler]
  /\ inbox = [s \in Servers |-> "none"]
  /\ PageClosed
  /\ HostIdle

\* the batch route up to its request to the Engine's queue
BatchBuild ==
  /\ pc = "batch"
  /\ LET built == payloadItems(req.items, 0)
     IN IF built.items = <<>>
        THEN /\ pc' = "done"
             /\ resp' = [status |-> 400,
                         error |-> "No valid manager items found for requested action.",
                         invalidItems |-> built.invalid]
             /\ ran' = ran
        ELSE /\ pc' = "queueBatch"
             /\ resp' = resp
             /\ ran' = Append(ran, [cmd |-> "queue/batch", items |-> built.items,
                                    invalid |-> built.invalid])
  /\ UNCHANGED <<disk, snaps, venv, env, req, nextId, nreq, before>>
  /\ UNCHANGED rest

\* the Engine's queue answers the batch request (and the queue start request)
QueueBatchReply(ok) ==
  /\ pc = "queueBatch"
  /\ pc' = "done"
  /\ resp' = IF ok THEN [status |-> 200, ok |-> TRUE, skipped |-> Last(ran).invalid]
             ELSE [status |-> 500, error |-> "Manager batch call failed"]
  /\ UNCHANGED <<disk, snaps, venv, env, req, nextId, nreq, before, ran>>
  /\ UNCHANGED rest

NextBatch ==
  \/ BatchBuild
  \/ \E ok \in BOOLEAN : QueueBatchReply(ok)

SpecBatch == InitBatch /\ [][NextBatch]_vars

\* ------------------------------------------------- compatibility set history
\* prepare requests the route receives under SpecHistory
MaxRebuilds == 51

\* the entries listCompatibilityHistory returns
HistoryListed == 50

\* saveCompatibilitySet: the current file is replaced, the history file named
\* after the lockId is written
saveCompatibilitySet(files, payload) ==
  [files EXCEPT !.current = Some(payload), !.history = @ \cup {payload.lockId}]

\* whether file name a sorts before file name b in listCompatibilityHistory:
\* the names differ in the stamp, then in the profile
SortsBefore(a, b) == a[1] > b[1] \/ (a[1] = b[1] /\ StrLess(b[2], a[2]))

\* listCompatibilityHistory: the first names in descending order
listCompatibilityHistory(files) ==
  IF Cardinality(files.history) <= HistoryListed THEN files.history
  ELSE {name \in files.history :
          Cardinality({other \in files.history : SortsBefore(other, name)}) < HistoryListed}

InitHistory ==
  /\ disk = NoFile
  /\ snaps = <<>>
  /\ venv = TRUE
  /\ env = BaseEnv
  /\ pc = "idle"
  /\ req = NoReq
  /\ resp = NoResp
  /\ nextId = 1
  /\ nreq = 0
  /\ before = NoFile
  /\ ran = <<>>
  /\ tier = ""
  /\ thread = [s \in Servers |-> NoHandler]
  /\ inbox = [s \in Servers |-> "none"]
  /\ PageClosed
  /\ backend = TRUE
  /\ reqFiles = NoReqFiles
  /\ cache = NoCache
  /\ now = 100
  /\ sets = [NoSets EXCEPT !.profile = Some("nvidia:true")]
  /\ view = NoView
  /\ engine = EngineDown

\* POST compatibility-set: a set is built and saved; the clock has moved on by
\* elapsed since the last request
PrepareSet(healthy, elapsed) ==
  /\ nreq < MaxRebuilds
  /\ nreq' = nreq + 1
  /\ now' = now + elapsed
  /\ LET payload == [lockId |-> <<now', readHardwareProfile(sets.profile)>>,
                     createdAt |-> now',
                     hardwareProfile |-> readHardwareProfile(sets.profile),
                     pipHealthy |-> healthy]
     IN /\ sets' = saveCompatibilitySet(sets, payload)
        /\ resp' = [status |-> 200, ok |-> TRUE, compatibilitySet |-> payload,
                    history |-> listCompatibilityHistory(sets')]
  /\ UNCHANGED <<disk, snaps, venv, env, pc, req, nextId, before, ran>>
  /\ UNCHANGED <<tier, thread, inbox, sessionVars, backend, reqFiles, cache, view, engine>>

\* GET compatibility-set
GetSet ==
  /\ resp' = IF sets.current = Unset
             THEN [status |-> 404, ok |-> FALSE, history |-> listCompatibilityHistory(sets)]
             ELSE [status |-> 200, ok |-> TRUE, compatibilitySet |-> sets.current[1],
                   history |-> listCompatibilityHistory(sets)]
  /\ UNCHANGED <<disk, snaps, venv, env, pc, req, nextId, nreq, before, ran>>
  /\ UNCHANGED rest

NextHistory ==
  \/ \E healthy \in BOOLEAN, elapsed \in {0, 1} : PrepareSet(healthy, elapsed)
  \/ GetSet

SpecHistory == InitHistory /\ [][NextHistory]_vars

\* ------------------------------------------- two servers on one store file
\* The engine is carried by the manager app and by the frontend app; each is
\* its own server process, and both keep transactions.json under the same
\* backend directory.  pc and req are the manager's handler; the other
\* server's createPlan, which runs no subprocess, is taken as one step.
\* the ids the other server's createPlan can hand out
MaxPeerId == 2

\* createPlan on the other server, from readStore to writeStore, while this
\* server's applyTransaction or rollbackTransaction is between its readStore
\* and its writeStore
PeerCreatePlan(s, input) ==
  /\ s # "manager"
  /\ thread[s].op = "none"
  /\ req.op \in {"apply", "rollback"}
  /\ pc \in {"snapshotBefore", "apply", "rollbackInstall", "rollbackCheck", "rollbackAfter", "write"}
  /\ nextId <= MaxPeerId
  /\ disk' = Json(trimmed(Append(readStore(disk), planned(nextId, input))))
  /\ nextId' = nextId + 1
  /\ UNCHANGED <<snaps, venv, env, pc, req, resp, nreq, before, ran>>
  /\ UNCHANGED rest

NextPeers ==
  \/ Next
  \/ \E s \in Servers :
        PeerCreatePlan(s, [mode |-> "repair", packages |-> [isArray |-> FALSE, items |-> <<>>]])

SpecPeers == Init /\ [][NextPeers]_vars

\* ------------------------------------------- retries after a crash
\* A client that finds a transaction running with no handler at work calls
\* apply or rollback on it again, as often as it likes.
\* the requests before the retries
MaxRecoverRequests == 2
\* the ids a retried rollback can hand out
MaxRecoverId == 2

\* the status the store file has for a transaction; "none" when it has none
StoredStatus(id) ==
  LET store == readStore(disk)
      index == findIndex(store, id)
  IN IF index = 0 THEN "none" ELSE store[index].status

\* a transaction left running: no handler is at work
LeftRunning(id) == pc = "idle" /\ StoredStatus(id) = "running"

\* POST apply for a transaction left running
RetryApply(id) ==
  /\ LeftRunning(id)
  /\ pc' = "applyTransaction"
  /\ req' = [op |-> "apply", id |-> id]
  /\ resp' = NoResp
  /\ before' = disk
  /\ ran' = <<>>
  /\ UNCHANGED <<disk, snaps, venv, env, nextId, nreq>>
  /\ UNCHANGED rest

\* POST rollback for a transaction left running
RetryRollback(id) ==
  /\ LeftRunning(id)
  /\ nextId <= MaxRecoverId
  /\ pc' = "rollbackTransaction"
  /\ req' = [op |-> "rollback", id |-> id]
  /\ resp' = NoResp
  /\ before' = disk
  /\ ran' = <<>>
  /\ UNCHANGED <<disk, snaps, venv, env, nextId, nreq>>
  /\ UNCHANGED rest

NextRecover ==
  \/ NextN(MaxRecoverRequests)
  \/ \E id \in Ids : RetryApply(id)
  \/ \E id \in Ids : RetryRollback(id)

\* the server runs on; a retry that stays possible is made again and again,
\* and the server does not crash under every one of them
SpecRecover ==
  /\ Init
  /\ [][NextRecover]_vars
  /\ WF_vars(NextRecover)
  /\ \A id \in 1..MaxRecoverId : SF_vars(RetryApply(id))
  /\ SF_vars(ApplyFind)
  /\ WF_vars(Return)

\* ------------------------------------------------------ the restart paths
\* POST /api/backend/restart, POST /api/manager/reboot and
\* restartBackendSafely: each asks the Engine's manager to reboot it, or spawns
\* start-backend.sh detached.  engine.starts counts the spawns.
RestartPaths == {"backend/restart", "manager/reboot", "restartBackendSafely"}
\* the detached starts of one run
MaxStarts == 3

InitRestart == InitStatus /\ venv

\* the Engine comes up, with or without its manager routes, or goes down
EngineChange(up, routes) ==
  /\ engine' = [engine EXCEPT !.up = up, !.managerRoutes = up /\ routes]
  /\ engine' # engine
  /\ UNCHANGED <<disk, snaps, venv, env, pc, req, resp, nextId, nreq, before, ran>>
  /\ UNCHANGED <<tier, thread, inbox, sessionVars, backend, reqFiles, cache, now, sets, view>>

\* a restart path is entered
ReceiveRestart(path) ==
  /\ pc = "idle"
  /\ engine.starts < MaxStarts
  /\ pc' = IF path = "restartBackendSafely" THEN "reboot" ELSE "isBackendUp"
  /\ req' = [op |-> path]
  /\ resp' = NoResp
  /\ ran' = <<>>
  /\ UNCHANGED <<disk, snaps, venv, env, nextId, nreq, before>>
  /\ UNCHANGED rest

RestartReply(mode, status) ==
  /\ pc' = "done"
  /\ resp' = [op |-> req.op, status |-> status, mode |-> mode]

\* restartBackendDetached and the answer that follows it
restartBackendDetached ==
  /\ engine' = [engine EXCEPT !.starts = @ + 1]
  /\ ran' = Append(ran, "start-backend.sh")
  /\ RestartReply("detached_start", 200)

\* await isBackendUp(): GET /system_stats
ProbeBackend ==
  /\ pc = "isBackendUp"
  /\ IF req.op = "restartBackendSafely"
     THEN IF engine.up
          THEN RestartReply("already_running", 200) /\ UNCHANGED <<engine, ran>>
          ELSE restartBackendDetached
     ELSE IF engine.up
          THEN pc' = "reboot" /\ UNCHANGED <<engine, ran, resp>>
          ELSE restartBackendDetached
  /\ UNCHANGED <<disk, snaps, venv, env, req, nextId, nreq, before>>
  /\ UNCHANGED <<tier, thread, inbox, sessionVars, backend, reqFiles, cache, now, sets, view>>

\* await fetch(`${BACKEND_URL}/v2/manager/reboot`): the fetch throws when the
\* Engine does not answer; the response is ok when the manager routes exist
RebootRequest ==
  /\ pc = "reboot"
  /\ IF engine.up /\ engine.managerRoutes
     THEN RestartReply("manager_reboot", 200) /\ UNCHANGED <<engine, ran>>
     ELSE IF req.op = "restartBackendSafely"
     THEN pc' = "isBackendUp" /\ UNCHANGED <<engine, ran, resp>>
     ELSE IF req.op = "manager/reboot" /\ ~engine.up
     THEN RestartReply("error", 503) /\ UNCHANGED <<engine, ran>>
     ELSE restartBackendDetached
  /\ UNCHANGED <<disk, snaps, venv, env, req, nextId, nreq, before>>
  /\ UNCHANGED <<tier, thread, inbox, sessionVars, backend, reqFiles, cache, now, sets, view>>

NextRestart ==
  \/ \E up \in BOOLEAN, routes \in BOOLEAN : EngineChange(up, routes)
  \/ \E path \in RestartPaths : ReceiveRestart(path)
  \/ ProbeBackend
  \/ RebootRequest
  \/ Return

SpecRestart == InitRestart /\ [][NextRestart]_vars

\* ================================================================= claims
HasTx(txs, id) == findIndex(txs, id) # 0
TxOf(txs, id) == txs[findIndex(txs, id)]

InMemory(r) == "tx" \in DOMAIN r

IsPipCheck(step) ==
  step.command \in {venvPython \o " -m pip check", "python -m pip check"}

\* ---------------------------------------------------------------------- C1
\* The status changes a transaction record goes through, in the store file
\* and in the handler's copy of it: each pair (old, new) of different statuses
\* seen on one record from one state to the next.
StoredChanges ==
  { <<readStore(disk)[i].status, TxOf(readStore(disk'), readStore(disk)[i].id).status,
      readStore(disk)[i].rollbackOf>> :
      i \in {j \in 1..Len(readStore(disk)) : HasTx(readStore(disk'), readStore(disk)[j].id)} }

HandlerChanges ==
  IF ~InMemory(req') \/ req'.op = "createPlan" THEN {}
  ELSE IF InMemory(req) /\ req.tx.id = req'.tx.id
       THEN {<<req.tx.status, req'.tx.status, req'.tx.rollbackOf>>}
  ELSE IF HasTx(readStore(disk), req'.tx.id)
       THEN {<<TxOf(readStore(disk), req'.tx.id).status, req'.tx.status,
               req'.tx.rollbackOf>>}
  ELSE {}

Changes == {c \in StoredChanges \cup HandlerChanges : c[1] # c[2]}

ClaimedChange(c) ==
  \/ c[1] = "planned" /\ c[2] = "running"
  \/ c[1] = "running" /\ c[2] \in {"succeeded", "failed"}
  \/ c[1] = "running" /\ c[2] = "rolled_back" /\ c[3] # NoId

\* C1 as claimed: a status only changes planned -> running -> succeeded or
\* failed, or running -> rolled_back on a transaction that has rollbackOf.
C1_OnlyClaimedChanges == [][\A c \in Changes : ClaimedChange(c)]_vars

\* C1 as amended: the changes are those, and failed -> running when a failed
\* transaction is applied again.
C1_StatusChanges ==
  [][\A c \in Changes :
       ClaimedChange(c) \/ (c[1] = "failed" /\ c[2] = "running")]_vars

\* a failed transaction has been taken up again by apply
C1_Witness ==
  /\ pc = "snapshotBefore"
  /\ req.tx.status = "running"
  /\ TxOf(readStore(disk), req.id).status = "failed"

\* ---------------------------------------------------------------------- C2
\* C2: apply on a stored transaction whose status is running, succeeded or
\* rolled_back answers 409, has run no command, and leaves the store file,
\* the snapshots and the environment as they were.
C2_ApplyConflict ==
  [][(/\ pc = "applyTransaction"
      /\ pc' # "idle"
      /\ HasTx(readStore(disk), req.id)
      /\ TxOf(readStore(disk), req.id).status \in {"running", "succeeded", "rolled_back"})
     => (/\ pc' = "done"
         /\ resp'.op = "apply" /\ resp'.status = 409 /\ resp'.tx = NoTx
         /\ ran' = <<>>
         /\ disk' = disk /\ snaps' = snaps /\ env' = env /\ nextId' = nextId)]_vars

\* an apply has been refused with 409
C2_Witness ==
  /\ pc = "done" /\ resp.op = "apply" /\ resp.status = 409
  /\ TxOf(readStore(disk), resp.id).status \in {"running", "succeeded", "rolled_back"}

\* ---------------------------------------------------------------------- C3
\* C3: when apply completes, the last step of the transaction is the pip
\* check; the transaction is succeeded with pipHealthy = true and error = null
\* if that step passed, failed with pipHealthy = false and an error if not;
\* and that record is the one in the store.
C3_ApplyVerdict ==
  (pc = "done" /\ resp.op = "apply" /\ resp.status = 200) =>
    LET tx == resp.tx
        check == Last(tx.steps)
    IN /\ IsPipCheck(check)
       /\ check.ok => (tx.status = "succeeded" /\ tx.pipHealthy = Some(TRUE)
                       /\ tx.error = NULL)
       /\ ~check.ok => (tx.status = "failed" /\ tx.pipHealthy = Some(FALSE)
                        /\ tx.error # NULL)
       /\ HasTx(readStore(disk), tx.id) /\ TxOf(readStore(disk), tx.id) = tx

\* an apply has ended succeeded although one of its installs failed
C3_Witness ==
  /\ pc = "done" /\ resp.op = "apply" /\ resp.status = 200
  /\ resp.tx.status = "succeeded"
  /\ \E i \in 1..(Len(resp.tx.steps) - 1) : ~resp.tx.steps[i].ok

\* ---------------------------------------------------------------------- C4
\* C4: while apply runs its steps, the stored transaction holds every step
\* that has finished (so a crash after step k leaves steps 1..k in the store).
C4_StepsPersisted ==
  (pc \in {"run", "snapshotAfter"} /\ req.op = "apply" /\ Len(req.steps) >= 1) =>
    /\ HasTx(readStore(disk), req.id)
    /\ TxOf(readStore(disk), req.id).steps = req.tx.steps \o req.steps

\* ---------------------------------------------------------------------- C5
\* C5: a crash during a store write leaves a file that reads as the complete
\* store of before the write or as the complete store being written.
C5_AtomicWrite ==
  [][(pc = "writing" /\ pc' = "idle") =>
       readStore(disk') \in {readStore(req.prev), trimmed(req.store)}]_vars

\* ---------------------------------------------------------------------- C6
\* C6: after N createPlan calls on an empty store the store holds the last
\* min(N, 200) transactions created, in creation order (ids are creation
\* indices, so those are N - count + 1 .. N).
C6_StoreBound ==
  (pc \in {"idle", "done"}) =>
    LET N == nextId - 1
        txs == readStore(disk)
    IN /\ Len(txs) = Min(N, MAX_TX)
       /\ \A i \in 1..Len(txs) : txs[i].id = N - Len(txs) + i

\* more than 200 plans have been created and the oldest are gone
C6_Witness ==
  /\ pc = "done" /\ resp.op = "createPlan"
  /\ nextId - 1 > MAX_TX
  /\ Len(readStore(disk)) = MAX_TX
  /\ readStore(disk)[1].id > 1

\* ---------------------------------------------------------------------- C7
\* C7: when rollback(T) completes for a T whose apply succeeded, the
\* environment's freeze listing equals the content of T's snapshotBefore.
C7_RollbackSymmetry ==
  (/\ pc = "done" /\ resp.op = "rollback" /\ resp.status = 200
   /\ resp.tx.status = "rolled_back"
   /\ resp.tx.steps[1].ok
   /\ HasTx(readStore(disk), resp.id)
   /\ TxOf(readStore(disk), resp.id).status = "succeeded")
  => env = snaps[TxOf(readStore(disk), resp.id).snapshotBefore]

\* ---------------------------------------------------------------------- C8
\* what a completed rollback leaves, for a given kind of the new transaction
RollbackAppends(kind) ==
  (pc = "done" /\ resp.op = "rollback" /\ resp.status = 200) =>
    LET tx == resp.tx
        old == readStore(before)
    IN /\ readStore(disk) = trimmed(Append(old, tx))
       /\ ~HasTx(old, tx.id)
       /\ tx.kind = kind
       /\ tx.rollbackOf = resp.id
       /\ tx.planCommands = <<"python -m pip install -r <snapshot-before>",
                              "python -m pip check">>
       /\ Len(tx.steps) = 2 /\ IsPipCheck(tx.steps[2])
       /\ tx.status = IF tx.steps[2].ok THEN "rolled_back" ELSE "failed"

C9_RollbackConflict ==
  [][(/\ pc = "rollbackTransaction"
      /\ pc' # "idle"
      /\ HasTx(readStore(disk), req.id)
      /\ LET path == TxOf(readStore(disk), req.id).snapshotBefore
         IN path = NULL \/ path \notin DOMAIN snaps)
     => (/\ pc' = "done"
         /\ resp'.op = "rollback" /\ resp'.status = 409 /\ resp'.tx = NoTx
         /\ ran' = <<>>
         /\ disk' = disk /\ snaps' = snaps /\ env' = env /\ nextId' = nextId)]_vars

\* a rollback has been refused because the snapshot file was deleted
C9_Witness ==
  /\ pc = "done" /\ resp.op = "rollback" /\ resp.status = 409
  /\ TxOf(readStore(disk), resp.id).snapshotBefore # NULL

\* --------------------------------------------------------------------- C10
StartsWith(s, prefix) ==
  Len(s) >= Len(prefix) /\ SubSeq(s, 1, Len(prefix)) = prefix

\* a step's command as a plan writes it, with "python" for the interpreter
PlanText(step) ==
  IF StartsWith(step.command, venvPython)
  THEN "python" \o SubSeq(step.command, Len(venvPython) + 1, Len(step.command))
  ELSE step.command

\* C10: a completed apply has kept the steps recorded earlier and appended
\* one step per command of the transaction's plan, in plan order.
C10_OneStepPerPlanCommand ==
  (pc = "done" /\ resp.op = "apply" /\ resp.status = 200) =>
    LET tx == resp.tx
        old == TxOf(readStore(before), tx.id).steps
        new == SubSeq(tx.steps, Len(old) + 1, Len(tx.steps))
    IN /\ SubSeq(tx.steps, 1, Len(old)) = old
       /\ Len(new) = Len(tx.planCommands)
       /\ \A i \in 1..Min(Len(new), Len(tx.planCommands)) :
            PlanText(new[i]) = tx.planCommands[i]

\* ---------------------------------------------------------------- C11
Sanitized(r) == r.op = "sanitizePackages" /\ r.input.isArray

\* the characters the claim lists: [A-Za-z0-9_.\-<>=!~\[\],:@+/ ]
ClaimedChars ==
  Letters \cup Digits \cup
  {"_", ".", "-", "<", ">", "=", "!", "~", "[", "]", ",", ":", "@", "+", "/", " "}
OnlyClaimedChars(s) ==
  Len(s) > 0 /\ \A i \in 1..Len(s) : SubSeq(s, i, i) \in ClaimedChars

\* the first position of value in items once f is applied to each item
FirstAt(f(_), items, value) ==
  CHOOSE i \in 1..Len(items) :
    f(items[i]) = value /\ \A j \in 1..(i - 1) : f(items[j]) # value

\* out holds, once each and in the order of their first occurrence, exactly
\* the values f(item) that are made only of the allowed characters
KeepsExactly(f(_), items, out) ==
  /\ \A k \in 1..Len(out) :
       /\ OnlyClaimedChars(out[k])
       /\ \E i \in 1..Len(items) : f(items[i]) = out[k]
  /\ \A i \in 1..Len(items) :
       OnlyClaimedChars(f(items[i])) => InSeq(f(items[i]), out)
  /\ \A k, l \in 1..Len(out) :
       k < l => /\ out[k] # out[l]
                /\ FirstAt(f, items, out[k]) < FirstAt(f, items, out[l])

AsGiven(item) == item

\* C11 as claimed: sanitizePackages returns exactly the input specifiers made
\* only of the allowed characters, in their original order with duplicates
\* removed, and drops every specifier that holds any other character
C11_KeepsInputSpecifiers ==
  Sanitized(resp) => KeepsExactly(AsGiven, resp.input.items, resp.out)

\* C11: sanitizePackages returns exactly the input specifiers that, once
\* trimmed of surrounding whitespace, are non-empty and made only of the
\* allowed characters; it returns them trimmed, in the order of their first
\* occurrence, with duplicates (compared after trimming) removed
C11_KeepsTrimmedSpecifiers ==
  Sanitized(resp) => KeepsExactly(Trim, resp.input.items, resp.out)

\* a call that trimmed one item, dropped one and merged a duplicate
C11_Witness ==
  /\ Sanitized(resp)
  /\ resp.input.items = <<" numpy", "a;b", "numpy">>
  /\ resp.out = <<"numpy">>

\* ---------------------------------------------------------------- C12
\* C12: createPlan with mode install and packages ["torch==2.4", "rm -rf /",
\* "pillow"] stores a transaction whose requestedPackages are exactly
\* ["torch==2.4", "pillow"]
C12_DropsShellText ==
  [][(/\ pc = "writing" /\ pc' = "done"
      /\ req.op = "createPlan"
      /\ req.input.mode = "install"
      /\ req.input.packages.isArray
      /\ req.input.packages.items = <<"torch==2.4", "rm -rf /", "pillow">>)
     => Last(readStore(disk')).requestedPackages = <<"torch==2.4", "pillow">>]_vars

\* ---------------------------------------------------------------- C13
\* the tiers and what each permits, as the claim lists them
Permitted(t, p) ==
  \/ t = "free" /\ p = "open"
  \/ t = "pro" /\ p \in {"open", "non-commercial"}
  \/ t = "enterprise" /\ p \in {"open", "non-commercial", "commercial"}

AllPermitted(t, policies) ==
  \A i \in 1..Len(policies) : Permitted(t, policies[i])

NotPermitted(t, policies) == SelectSeq(policies, LAMBDA p : ~Permitted(t, p))

\* C13: under a tier the claim lists (free, pro, enterprise), a plan request
\* whose policies are not all permitted for the tier creates no transaction: the step that handles it answers with the policy
\* violation (403) listing exactly the policies not permitted, and leaves the
\* store as it was
C13_PolicyGate ==
  [][(/\ pc \in {"envPlan", "createPlan"}
      /\ userTier \in {"free", "pro", "enterprise"}
      /\ ~AllPermitted(userTier, req.input.policies))
     => /\ pc' = "done"
        /\ resp'.status = 403
        /\ resp'.violations = NotPermitted(userTier, req.input.policies)
        /\ disk' = disk
        /\ nextId' = nextId]_vars

\* ---------------------------------------------------------------- C14
\* the server is inside a package-manager command of a mutating operation
RunsPip(s) == thread[s].op \in Writers /\ thread[s].child

\* C14: at no time do two environment-mutating operations run package-manager
\* commands against the backend's virtualenv at once
C14_SingleWriter ==
  \A s1, s2 \in Servers : (s1 # s2) => ~(RunsPip(s1) /\ RunsPip(s2))

\* ---------------------------------------------------------------- C15
\* C15: a read-only request that is waiting at a server while an apply, a
\* rollback or a compatibility-set rebuild runs there can be served at once,
\* without the operation finishing first
C15_ReadsNotBlocked ==
  \A s \in Servers :
    (/\ inbox[s] \in Reads
     /\ thread[s].op \in {"applyTransaction", "rollbackTransaction", "compatibility-set"})
    => ENABLED ServeRead(s)

\* ------------------------------------------------------- install sessions
Has(type) == \E i \in 1..Len(log) : log[i].type = type
\* the keys of the run's event of this type, none when there is no such event
KeysOf(type) ==
  IF Has(type) THEN log[CHOOSE i \in 1..Len(log) : log[i].type = type].keys ELSE <<>>

\* the installed states, as the claim's section lists them
InstalledStates ==
  {"enabled", "disabled", "updatable", "try-update", "uninstall", "import-fail",
   "invalid-installation"}

\* the event is a chunk on its way to the Engine
IsBatch(e) == e.type \in {"batch", "queue/batch"}

C17_OnlyBlockedSkipped ==
  Has("preflight-blocked") =>
    /\ \A i \in 1..Len(session.items) :
         session.items[i].status = "skipped"
           => InSeq(session.items[i].key, KeysOf("preflight-blocked"))
    /\ (Has("finished") /\ ~Has("cancel")) =>
         \A j \in 1..Len(KeysOf("preflight-warning")) :
           \E i \in 1..Len(log) :
             log[i].type = "batch" /\ InSeq(KeysOf("preflight-warning")[j], log[i].keys)

\* ---------------------------------------------------------------- C18
RECURSIVE Flatten(_)
Flatten(seqs) == IF seqs = <<>> THEN <<>> ELSE Head(seqs) \o Flatten(Tail(seqs))

C20_NoSubmitAfterCancel ==
  \A i, j \in 1..Len(log) :
    (i < j /\ log[i].type = "cancel") => log[j].type # "batch"

\* the session was canceled after its first chunk and stopped with items left
C20_Witness ==
  /\ Has("cancel")
  /\ Has("canceled")
  /\ Count("batch") = 1
  /\ \E i \in 1..Len(session.items) : session.items[i].status = "pending"

\* ---------------------------------------------------------------- C21
SetOf(s) == {s[i] : i \in 1..Len(s)}

\* the spec sets the loop has extracted so far, in order, each with the number
\* of commands run before it
Extracted == IF pc = "autoHeal" THEN req.extracted ELSE resp.extracted

\* C21: AutoHeal runs at most 6 rounds, and once it has extracted a
\* required-spec set equal to one it extracted in an earlier round it runs no
\* further install command
C21_AutoHealBounded ==
  /\ \A k \in 1..Len(ran) : ran[k].cmd \in {"install", "check"} => ran[k].round \in 1..6
  /\ Len(SelectSeq(ran, LAMBDA step : step.cmd = "check")) <= 6
  /\ \A i, j \in 1..Len(Extracted) :
       (i < j /\ SetOf(Extracted[i].specs) = SetOf(Extracted[j].specs))
       => \A k \in 1..Len(ran) : k > Extracted[j].at => ran[k].cmd # "install"

\* the loop installed the specs of one set, extracted the same set again in
\* another order from the next pip check and ended with the final check
C21_Witness ==
  /\ pc = "done"
  /\ \E i, j \in 1..Len(Extracted) :
       /\ i < j
       /\ Extracted[i].specs # Extracted[j].specs
       /\ SetOf(Extracted[i].specs) = SetOf(Extracted[j].specs)
  /\ \E k \in 1..Len(ran) : ran[k].cmd = "install"
  /\ Last(ran).cmd = "final-check"


\* the name pip knows a distribution by: lowercased, with "_" and "." read as "-"
RECURSIVE CanonicalName(_)
CanonicalName(s) ==
  IF s = "" THEN ""
  ELSE LET c == SubSeq(toLowerCase(s), 1, 1)
       IN (IF c \in {"_", "."} THEN "-" ELSE c) \o CanonicalName(SubSeq(s, 2, Len(s)))

\* the packages the prune step has to leave installed
ProtectedPackages ==
  {CanonicalName(name) :
     name \in {"pip", "setuptools", "wheel", "torch", "torchvision", "torchaudio",
               "comfyui-manager", "comfyui_frontend_package"}
              \cup reqFiles.core \cup reqFiles.mgr
              \cup (IF reqFiles.compat = Unset THEN {} ELSE reqFiles.compat[1])}

\* the packages the commands run so far have uninstalled
Uninstalled ==
  UNION {SetOf(ran[k].args) : k \in {i \in 1..Len(ran) : ran[i].cmd = "uninstall"}}

\* C22: the prune step never uninstalls a protected package: pip, setuptools,
\* wheel, torch, torchvision, torchaudio, comfyui-manager,
\* comfyui_frontend_package, or a package named in requirements.txt,
\* manager_requirements.txt or the compatible requirements file.
C22_PruneKeepsProtected ==
  \A name \in Uninstalled : CanonicalName(name) \notin ProtectedPackages

\* C23: for the four environment issues the compatible installs run first,
\* then AutoHeal, and an uninstall happens only after an AutoHeal round ended
\* with pip check still failing.
C23_PruneAfterAutoHeal ==
  \A k \in 1..Len(ran) :
    ran[k].cmd = "uninstall"
    => \E i, j \in 1..(k - 1) :
         /\ i < j
         /\ ran[i].fn = "enforceCompatibleEnvironment" /\ ran[i].cmd = "install"
         /\ ran[j].fn = "autoHealPipConflicts" /\ ran[j].cmd = "check"
         /\ ~ran[j].args[1].ok


\* the versions the specifiers are compared on: final releases 0.5 .. 3.5 in
\* tenths, so that every interval between two bounds of SpecVersions has a member
VersionKeys == 5..35

\* the versions every collected specifier of a package admits
Intersection(pkg) ==
  {key \in VersionKeys :
     \A spec \in req.tree[pkg] : \A sp \in SpecifierSet(spec) : Admits(sp, key)}

\* the specifiers a compatible file gives for a package
WrittenFor(pkg, file) ==
  LET lines == SelectSeq(Split(file, "\n"),
                         LAMBDA line : Len(line) > Len(pkg) /\ SubSeq(line, 1, Len(pkg)) = pkg)
  IN {SubSeq(lines[i], Len(pkg) + 1, Len(lines[i])) : i \in 1..Len(lines)}

\* whether a conflict names a version of the package's specifiers
NamesBound(conflict, pkg) ==
  \E i \in 1..Len(conflict.reasons) :
    \E spec \in req.tree[pkg] : \E sp \in SpecifierSet(spec) :
      Contains(conflict.reasons[i], sp.version)

\* C24: a package whose specifiers have a common version gets, in the
\* compatible file, a specifier that admits exactly the versions all its
\* specifiers admit; a package with none is listed in conflicts with a reason
\* that names a bound or pin, and has no line in the compatible file.
C24_WritesIntersection ==
  \A r \in 1..Len(ran) : \A pkg \in {p \in Packages : req.tree[p] # {}} :
    LET written == WrittenFor(pkg, ran[r].compatible)
        listed == {i \in 1..Len(ran[r].report.conflicts) :
                     ran[r].report.conflicts[i].package = pkg}
    IN IF Intersection(pkg) # {}
       THEN /\ Cardinality(written) = 1
            /\ \A spec \in written :
                 {key \in VersionKeys : \A sp \in SpecifierSet(spec) : Admits(sp, key)}
                 = Intersection(pkg)
       ELSE /\ written = {}
            /\ \E i \in listed : NamesBound(ran[r].report.conflicts[i], pkg)

\* the report without the time it was generated at
Structure(report) ==
  [ok |-> report.ok, packagesScanned |-> report.packagesScanned,
   compatibleRequirementCount |-> report.compatibleRequirementCount,
   conflictCount |-> report.conflictCount, conflicts |-> report.conflicts]

\* C25: two runs on the same tree write the same bytes to the compatible and
\* the incompatible file and give reports that are equal but for their time,
\* and the conflicts of a report are in the order of the package names.
C25_RunsAgree ==
  /\ \A r \in 1..Len(ran) :
       LET conflicts == ran[r].report.conflicts
       IN \A i, j \in 1..Len(conflicts) :
            i < j => StrLess(conflicts[i].package, conflicts[j].package)
  /\ \A r, s \in 1..Len(ran) :
       /\ ran[r].compatible = ran[s].compatible
       /\ ran[r].incompatible = ran[s].incompatible
       /\ Structure(ran[r].report) = Structure(ran[s].report)


\* the table of rules: the patterns that block and those that warn
TableBlocks(text, h) ==
  \/ ~h.hasNvidia /\ Matches(text, {"cuda-only", "requires cuda", "nvidia-only",
                                     "tensorrt required", "triton required"})
  \/ ~h.hasRocm /\ Matches(text, {"rocm-only", "requires rocm", "hip required"})
TableWarns(text, h) ==
  \/ ~h.hasNvidia /\ Matches(text, {"cuda", "nvidia", "tensorrt", "cu12", "cu11"})
  \/ ~h.hasRocm /\ Matches(text, {"rocm", "hip"})
  \/ h.isDarwinArm64 /\ Matches(text, {"xformers", "triton", "flash-attn", "bitsandbytes"})
TableDecision(text, h) ==
  IF TableBlocks(text, h) THEN "blocked"
  ELSE IF TableWarns(text, h) THEN "warning"
  ELSE "installable"

\* the decisions taken so far, with the text they were taken on
Decisions ==
  (IF resp.op = "preflight" THEN {resp} ELSE {})
  \cup {ran[k] : k \in {i \in 1..Len(ran) : ran[i].cmd = "catalog-audit"}}

\* C26 as stated: the decision is blocked if a blocked rule of the table
\* matches, else warning if a warning rule matches, else installable.
C26_DecisionByTable ==
  \A d \in Decisions : d.decision = TableDecision(d.text, hw)

\* C26: the decision is blocked if a blocked rule of the table matches or the
\* text holds "requires nvidia" without NVIDIA hardware, else warning if a
\* warning rule matches, else installable; without NVIDIA hardware "cuda-only"
\* is blocked and plain "cuda" a warning, with it CUDA text alone is installable.
C26_DecisionByRules ==
  \A d \in Decisions :
    /\ d.decision =
         IF TableBlocks(d.text, hw) \/ (~hw.hasNvidia /\ Contains(d.text, "requires nvidia"))
         THEN "blocked"
         ELSE TableDecision(d.text, hw)
    /\ ~hw.hasNvidia /\ Contains(d.text, "cuda-only") => d.decision = "blocked"
    /\ ~hw.hasNvidia /\ d.text = "pack cuda" => d.decision = "warning"
    /\ hw.hasNvidia /\ d.text \in {"pack cuda", "pack requires cuda", "pack cuda-only"}
       => d.decision = "installable"

C26_Witness ==
  /\ \E d \in Decisions : d.decision = "blocked" /\ d.text = "pack requires nvidia with xformers"
  /\ ~hw.hasNvidia /\ hw.hasRocm /\ hw.isDarwinArm64
  /\ Cardinality(Decisions) = 2


\* the sub-result a report gives for a slot
SubResult(report, slot) == report[slot]

\* the slot holds an entry that has not expired
WithinTtl(slot) == cache[slot] # Unset /\ cache[slot][1].expiresAt > now

\* a request to the status route has been answered in this step
Answered == resp' # resp \/ ran' # ran \/ cache' # cache

\* C27: a call made while a slot's entry is live returns that entry's value
\* without running the slot's probe and leaves the entry as it is, in fast and
\* in deep mode; a call returns what the cache then holds, so two fast calls
\* within the life of an entry return the same sub-result; a deep call stores
\* only what it computed, with the deep time to live, shorter than the fast one.
C27_CacheServes ==
  [][Answered =>
       \A slot \in Slots :
         /\ resp'.op = "status"
         /\ cache'[slot] # Unset
         /\ SubResult(resp', slot) = cache'[slot][1].value
         /\ WithinTtl(slot) =>
              /\ cache'[slot] = cache[slot]
              /\ \A k \in 1..Len(ran') : ran'[k] # slot
         /\ ~WithinTtl(slot) =>
              /\ \E k \in 1..Len(ran') : ran'[k] = slot
              /\ cache'[slot][1].expiresAt
                   = now + Ttl(slot, resp'.diagnosticsMode = "deep")
         /\ Ttl(slot, TRUE) < Ttl(slot, FALSE)]_vars

\* a deep call has found the managerRuntime entry of a fast call live and the
\* entries of the other slots expired
C27_Witness ==
  /\ resp.op = "status" /\ resp.diagnosticsMode = "deep"
  /\ ran = <<"logInfo", "hardwareRuntime">>
  /\ resp.managerRuntime.pipCheckOutput = "skipped (fast status mode)"
  /\ cache["managerRuntime"][1].expiresAt = 27
  /\ cache["logInfo"][1].expiresAt = now + 8
  /\ now = 14


\* the report lists the issue
Reports(id) == \E k \in 1..Len(resp.issues) : resp.issues[k] = id

\* the probe ran pip check and it did not exit with status 0
PipCheckBroken(managerRuntime) ==
  managerRuntime.pipCheckOutput = "(pip check output)" /\ ~managerRuntime.pipCheckPassed

\* the triggers that do not depend on pip check, on the report's probe results
OtherTriggers ==
  LET m == resp.managerRuntime
      route == resp.managerEndpoint # ""
  IN /\ Reports("backend_down") <=> ~resp.backendUp
     /\ Reports("manager_routes_missing") <=> (resp.backendUp /\ ~route)
     /\ Reports("venv_missing") <=> ~m.venvFound
     /\ Reports("manager_pkg_missing") <=> (m.venvFound /\ ~m.managerInstalled /\ ~route)
     /\ Reports("manager_import_runtime_failed")
          <=> (m.managerInstalled /\ ~m.managerImportRuntimeOk /\ ~route)

\* C28 as stated, with "pip check reports broken requirements" and "pip check
\* failed" read as one fact: either that pip check ran and did not pass, or
\* that the probe's pipCheckPassed is false.
C28_TriggersAsStated ==
  resp.op = "status" =>
    /\ OtherTriggers
    /\ \/ /\ Reports("pip_check_failed") <=> PipCheckBroken(resp.managerRuntime)
          /\ Reports("pip_log_issue")
               <=> (resp.logInfo.pipIssue /\ PipCheckBroken(resp.managerRuntime))
       \/ /\ Reports("pip_check_failed") <=> ~resp.managerRuntime.pipCheckPassed
          /\ Reports("pip_log_issue")
               <=> (resp.logInfo.pipIssue /\ ~resp.managerRuntime.pipCheckPassed)

\* C28: on the probe results a report is built from, each of the seven ids is
\* listed exactly when its trigger holds; pip_check_failed when the venv is
\* present and pip check ran and did not pass, pip_log_issue when the log has
\* pip markers and the venv is absent or pip check ran and did not pass.
C28_Triggers ==
  resp.op = "status" =>
    /\ OtherTriggers
    /\ Reports("pip_check_failed")
         <=> (resp.managerRuntime.venvFound /\ PipCheckBroken(resp.managerRuntime))
    /\ Reports("pip_log_issue")
         <=> /\ resp.logInfo.pipIssue
             /\ ~resp.managerRuntime.venvFound \/ PipCheckBroken(resp.managerRuntime)

C28_Witness ==
  /\ resp.op = "status"
  /\ ~resp.managerRuntime.venvFound /\ resp.logInfo.pipIssue /\ resp.backendUp
  /\ resp.issues = <<"venv_missing", "pip_log_issue">>
  /\ venv


\* the places the locator has to try: the override if set, then the candidates
Places == (IF req.envDir # "" THEN <<req.envDir>> ELSE <<>>) \o Candidates
ValidPlaces ==
  SelectSeq(Places, LAMBDA place : BACKEND_MARKER_FILES \subseteq req.files[place])

\* C29: the locator returns the first of the override and the candidates, in
\* that order, that holds both marker files, and BACKEND_DIR_NOT_FOUND with
\* the checked paths only when none of them does.
C29_FirstValidPlace ==
  pc = "done" =>
    IF ValidPlaces # <<>>
    THEN resp.ok /\ resp.backendDir = ValidPlaces[1]
    ELSE ~resp.ok /\ resp.code = "BACKEND_DIR_NOT_FOUND" /\ resp.checked # <<>>

\* C30: while no valid backend directory exists every answered operation has
\* failed, no file has been written, no snapshot taken and no command run.
C30_FailsFast ==
  ~backend =>
    /\ disk = NoFile
    /\ snaps = <<>>
    /\ ran = <<>>
    /\ resp # NoResp => resp.status >= 400

\* ---------------------------------------------------------------- C31
\* the page's diagnostics are not out of date: it has none, or they give the
\* profile .torch_profile holds now
DiagnosticsCurrent ==
  \/ view.diagnostics = Unset
  \/ view.diagnostics[1].hardwareProfile = statusHardwareProfile(sets.profile)

\* C31: an install session goes on with the cached set, without a prepare
\* request, only if the set is less than 15 minutes old, its hardware profile
\* equals the current hardware profile and its pipHealthy is true
C31_ReuseOnlyWhenValid ==
  [][(spc = "none" /\ spc' = "snapshot") =>
       /\ view.compatibilitySet # Unset
       /\ now - view.compatibilitySet[1].createdAt < FifteenMinutes
       /\ view.compatibilitySet[1].pipHealthy
       /\ DiagnosticsCurrent =>
            view.compatibilitySet[1].hardwareProfile = readHardwareProfile(sets.profile)]_vars

\* ---------------------------------------------------------------- C32
\* the entries of a request and what the route did with each: the item it
\* submitted for the entry, or none
Submitted(index) ==
  LET built == payloadItem(req.items[index + 1], index) IN built.items

\* whether a git URL can be recovered from repository, reference or files
Recoverable(entry) ==
  \/ normalizeRepoUrl(entry.repository) # NULL
  \/ normalizeRepoUrl(entry.reference) # NULL
  \/ \E i \in 1..Len(entry.files) : normalizeRepoUrl(entry.files[i]) # NULL

\* whether a cnr entry carries an id, in its id field or in its reference
HasId(entry) ==
  \/ entry.id # NULL /\ Trim(entry.id) # ""
  \/ parseCnrIdFromReference(entry.reference) # NULL

\* C32: a cnr item is submitted only with an id; a cnr item without id is
\* rewritten to git-clone whenever a git URL can be recovered from its
\* repository, reference or files; a git-clone item with no recoverable
\* repository URL is dropped and reported with a reason; other items are
\* submitted
C32_BatchClassifies ==
  pc = "queueBatch" =>
    \A index \in 0..(Len(req.items) - 1) :
      LET entry == req.items[index + 1]
          out == Submitted(index)
      IN /\ \A i \in 1..Len(out) :
              out[i].install_type = "cnr" => out[i].id \notin {NULL, ""}
         /\ (entry.install_type = "cnr" /\ ~HasId(entry) /\ Recoverable(entry)) =>
              /\ out # <<>>
              /\ out[1].install_type = "git-clone"
         /\ (entry.install_type = "git-clone" /\ ~Recoverable(entry)) =>
              /\ out = <<>>
              /\ \E k \in 1..Len(Last(ran).invalid) :
                   /\ Last(ran).invalid[k].index = index
                   /\ Last(ran).invalid[k].reason # ""
         /\ entry.install_type \notin {"cnr", "git-clone"} => out = <<entry>>

\* ---------------------------------------------------------------- C33
\* C33: after any number of rebuilds, compatibility_sets/ holds at most 50
\* files
C33_HistoryCapped == Cardinality(sets.history) <= HistoryListed

\* ---------------------------------------------------------------- C34
\* C34: when a failed transaction whose first apply wrote a snapshot is applied
\* again, the snapshot step leaves that snapshot file as it was and the
\* snapshotBefore field naming it
C34_SnapshotBeforeKept ==
  [][(/\ pc = "snapshotBefore" /\ pc' = "write"
      /\ req.store[req.index].status = "failed"
      /\ req.store[req.index].snapshotBefore \in DOMAIN snaps) =>
       LET old == req.store[req.index].snapshotBefore
       IN /\ req'.tx.snapshotBefore = old
          /\ snaps'[old] = snaps[old]]_vars

\* ---------------------------------------------------------------- C35
\* C35: the store an apply or a rollback writes holds every transaction that
\* is in the store file when the write begins (no store here reaches the
\* 200-entry eviction)
C35_WriteKeepsPersisted ==
  [][(pc = "write" /\ pc' = "writing" /\ req.op \in {"apply", "rollback"}) =>
       \A i \in 1..Len(readStore(disk)) : HasTx(req.store, readStore(disk)[i].id)]_vars

\* ---------------------------------------------------------------- C36
\* C36: a transaction left running by a crash does not stay running when
\* apply keeps being called on it
C36_RunningEnds ==
  \A id \in 1..MaxRecoverId :
    LeftRunning(id) ~> (StoredStatus(id) # "running")

\* ---------------------------------------------------------------- C37
\* C37: no stored transaction with rollbackOf set has status succeeded
C37_RollbackNeverSucceeded ==
  \A i \in 1..Len(readStore(disk)) :
    readStore(disk)[i].rollbackOf # NoId => readStore(disk)[i].status # "succeeded"

\* ---------------------------------------------------------------- C38
\* C38: a report answered in deep mode carries no managerRuntime sub-result
\* of the fast probe
C38_DeepReportIsDeep ==
  (resp.op = "status" /\ resp.diagnosticsMode = "deep") =>
     resp.managerRuntime.pipCheckOutput # "skipped (fast status mode)"

\* ---------------------------------------------------------------- C39
\* the session's log holds a queue-status poll that found the queue idle
IdleObserved ==
  \E k \in 1..Len(log) : log[k].type = "poll" /\ QueueIdle(log[k].keys[1])

\* C39: an item of a running session is done only when the session has seen
\* the Engine's queue idle
C39_DoneAfterIdle ==
  session.running =>
    \A i \in 1..Len(session.items) :
      session.items[i].status = "done" => IdleObserved

\* ---------------------------------------------------------------- C40
\* C40: start-backend.sh is spawned only in a step where the Engine does not
\* answer
C40_StartOnlyWhenDown ==
  [][engine'.starts > engine.starts => ~engine.up]_vars

====
